---- MODULE Spec2Model ----
(***************************************************************************)
(* Model of tools/fine_tune_realism.py: the realism tuning loop (main),    *)
(* the run executor with its on-disk run cache (run_seed_set / run_one),   *)
(* the objective aggregator and the paired acceptance statistics.          *)
(*                                                                         *)
(* Numbers are integers.  A score unit stands for 0.001 objective points;  *)
(* per-seed total scores are even so that the median of two seeds and the  *)
(* population standard deviation of two seeds are exact.                   *)
(***************************************************************************)
EXTENDS Integers, Sequences, FiniteSets, TLC

(***************************************************************************)
(* Bounds of the model.                                                    *)
(***************************************************************************)
\* args.max_iterations: the loop runs it = 1 .. MaxIterations.
MaxIterations == 5
\* Per-seed total scores are 0, 2, .., 2 * MaxScoreSteps.
MaxScoreSteps == 2
\* The tuned parameter ranges over 0 .. ParamMax (its declared min and max).
ParamMax == 1

(***************************************************************************)
(* Values read from the schema and definitions documents.                  *)
(***************************************************************************)
min_delta == 1
early_reject_margin == 1
holdout_delta_req == 0
holdout_hardfail_max == 1
paired_min_inner_lcb_delta == 0
paired_min_long_lcb_delta == 0
paired_min_holdout_lcb_delta == -1
\* paired_z = ZNum / ZDen = 1.96
ZNum == 196
ZDen == 100
lambdaVar == 1
targetStd == 1
lambdaFail == 2
EmptySentinel == -1000000
convergence_iterations == 1
plateau_iterations_structural == 3
target_objective == 4
major_violation_threshold == 50
medium_check_every_iterations == 2
medium_check_every_accepted == 2
SafetyFailLimit == 5
start_year == 0
inner_end_year == 1
medium_end_year == 2
long_end_year == 3
checkpoint_every == 50
paired_enabled == TRUE
racing_enabled == TRUE
medium_enabled == TRUE
\* cfg["economy"]["useGPU"] of the live and of every candidate configuration.
UseGpu == FALSE

tuning_seeds == <<1, 2>>
holdout_seeds == <<3>>
stage_seed_counts == <<1, 2>>

Scores == {2 * k : k \in 0..MaxScoreSteps}

(***************************************************************************)
(* Small helpers on sequences.                                             *)
(***************************************************************************)
Range(s) == {s[i] : i \in DOMAIN s}

Max2(a, b) == IF a >= b THEN a ELSE b

Min2(a, b) == IF a <= b THEN a ELSE b

RECURSIVE SumSeq(_)
SumSeq(s) == IF s = <<>> THEN 0 ELSE Head(s) + SumSeq(Tail(s))

SumSq(s) == SumSeq([i \in DOMAIN s |-> s[i] * s[i]])

\* floor of the square root
ISqrt(x) == CHOOSE r \in 0..x : r * r <= x /\ (r + 1) * (r + 1) > x

\* the sequence s sorted ascending (insertion by rank)
SortAsc(s) ==
    LET n == Len(s)
        rank(i) == Cardinality({j \in 1..n : s[j] < s[i] \/ (s[j] = s[i] /\ j < i)}) + 1
    IN  [k \in 1..n |-> s[CHOOSE i \in 1..n : rank(i) = k]]

\* s[1..n]
Prefix(s, n) == SubSeq(s, 1, Min2(n, Len(s)))

\* the elements of s that satisfy membership in the set keep, in order
RECURSIVE FilterIn(_, _)
FilterIn(s, keep) ==
    IF s = <<>> THEN <<>>
    ELSE IF Head(s) \in keep THEN <<Head(s)>> \o FilterIn(Tail(s), keep)
         ELSE FilterIn(Tail(s), keep)

(***************************************************************************)
(* SeedEval: what evaluate_seed_run returns for one run directory.  The    *)
(* run's telemetry is abstracted to its total score, the violation it      *)
(* makes the evaluator emit, and one key metric series value.              *)
(***************************************************************************)
ViolKinds == {"none", "major", "ext", "broken_ext", "missing_col", "missing_art"}

\* the violation list of an evaluation: <<id, severity, hardfail>>
Violations(e) ==
    CASE e.viol = "none" -> <<>>
      [] e.viol = "major" -> <<[id |-> "TRANSPORT_CHEAT", severity |-> 60, hardfail |-> FALSE]>>
      [] e.viol = "ext" -> <<[id |-> "EXTINCTION_PERSISTENT", severity |-> 100, hardfail |-> TRUE]>>
      [] e.viol = "broken_ext" ->
            <<[id |-> "BROKEN_ACCOUNTING", severity |-> 100, hardfail |-> TRUE],
              [id |-> "EXTINCTION_PERSISTENT", severity |-> 100, hardfail |-> TRUE]>>
      [] OTHER -> <<[id |-> "MISSING_METRIC", severity |-> 100, hardfail |-> TRUE]>>

\* SeedEval.hardfails: the ids of the violations flagged hardfail
Hardfails(e) == {v.id : v \in {w \in Range(Violations(e)) : w.hardfail}}

\* sorted({hf for s in evals for hf in s.hardfails})
HardfailIds(evals) == UNION {Hardfails(evals[i]) : i \in DOMAIN evals}

\* a median that takes the middle of the list as it comes
Median_unsorted(xs) ==
    LET n == Len(xs)
    IN  IF n % 2 = 1 THEN xs[(n + 1) \div 2]
        ELSE (xs[n \div 2] + xs[n \div 2 + 1]) \div 2

\* statistics.median
Median(xs) ==
    LET ys == SortAsc(xs)
        n == Len(xs)
    IN  IF n % 2 = 1 THEN ys[(n + 1) \div 2]
        ELSE (ys[n \div 2] + ys[n \div 2 + 1]) \div 2

\* safe_std: population standard deviation, 0 for fewer than two values
safe_std(xs) ==
    LET n == Len(xs)
    IN  IF n > 1 THEN ISqrt((n * SumSq(xs) - SumSeq(xs) * SumSeq(xs)) \div (n * n))
        ELSE 0

\* the dictionary aggregate_objective returns; the hard-fail rate is kept as
\* the fraction nfail / max(1, len)
aggregate_objective_dict(evals) ==
    LET scores == [i \in DOMAIN evals |-> evals[i].score]
        score_median == IF scores = <<>> THEN EmptySentinel ELSE Median(scores)
        std == safe_std(scores)
        nfail == Cardinality({i \in DOMAIN evals : Hardfails(evals[i]) # {}})
        var_pen == lambdaVar * Max2(0, std - targetStd)
        hardfail_pen == (lambdaFail * nfail) \div Max2(1, Len(evals))
    IN  [score_median |-> score_median, stddev |-> std,
         hardfail_rate |-> <<nfail, Max2(1, Len(evals))>>,
         variance_penalty |-> var_pen, hardfail_penalty |-> hardfail_pen,
         objective |-> score_median - var_pen - hardfail_pen]

\* aggregate_objective(...)["objective"]
aggregate_objective(evals) == aggregate_objective_dict(evals).objective

\* the ids of a violation list in order of first appearance
RECURSIVE IdsInOrder(_, _)
IdsInOrder(vs, seen) ==
    IF vs = <<>> THEN <<>>
    ELSE IF Head(vs).id \in seen THEN IdsInOrder(Tail(vs), seen)
         ELSE <<Head(vs).id>> \o IdsInOrder(Tail(vs), seen \cup {Head(vs).id})

RECURSIVE AllViolations(_)
AllViolations(evals) ==
    IF evals = <<>> THEN <<>> ELSE Violations(Head(evals)) \o AllViolations(Tail(evals))

\* top3_violations: ids by summed severity, descending, ties in insertion order
top3_violations(evals) ==
    LET vs == AllViolations(evals)
        ids == IdsInOrder(vs, {})
        n == Len(ids)
        sev(i) == SumSeq([k \in DOMAIN vs |-> IF vs[k].id = ids[i] THEN vs[k].severity ELSE 0])
        rank(i) == Cardinality({j \in 1..n : sev(j) > sev(i) \/ (sev(j) = sev(i) /\ j < i)}) + 1
        sorted == [k \in 1..n |-> ids[CHOOSE i \in 1..n : rank(i) = k]]
    IN  Prefix(sorted, 3)

(***************************************************************************)
(* Paired acceptance statistics.                                           *)
(***************************************************************************)
\* the per-seed differences paired_delta_stats collects
PairedDiffs(cand, inc, seeds) ==
    LET both == FilterIn(seeds, DOMAIN cand \cap DOMAIN inc)
    IN  [i \in DOMAIN both |-> cand[both[i]].score - inc[both[i]].score]

\* paired_delta_stats(...)["n"]
PairedN(cand, inc, seeds) == Len(PairedDiffs(cand, inc, seeds))

\* paired_delta_stats(...)["lcb"] >= t, decided exactly:
\*   lcb = mean - z * pstdev / sqrt(n)   (n > 1),   lcb = mean   (n <= 1)
\*   mean - t >= z * sqrt(n*Q - S*S) / (n * sqrt(n))
PairedLcbAtLeast(cand, inc, seeds, t) ==
    LET d == PairedDiffs(cand, inc, seeds)
        n == Len(d)
        S == SumSeq(d)
        Q == SumSq(d)
        A == S - n * t
    IN  IF n = 0 THEN 0 >= t
        ELSE IF n = 1 THEN S >= t
        ELSE A >= 0 /\ ZDen * ZDen * n * A * A >= ZNum * ZNum * (n * Q - S * S)

\* a standard error that grows with the sample count
StderrSq_times_n(var_num, var_den, n) ==
    IF n > 1 THEN [num |-> var_num * n, den |-> var_den] ELSE [num |-> 0, den |-> 1]

\* stderr squared, as a fraction: (std_diff / sqrt(n)) ** 2 if n > 1 else 0
StderrSq(var_num, var_den, n) ==
    IF n > 1 THEN [num |-> var_num, den |-> var_den * n] ELSE [num |-> 0, den |-> 1]

\* paired_delta_stats: n, the variance std_diff ** 2 of the differences and
\* stderr ** 2, as fractions, and z; lcb and ucb lie z * stderr below and
\* above the mean, so that ucb - lcb = 2 * z * stderr
paired_delta_stats(cand, inc, seeds) ==
    LET d == PairedDiffs(cand, inc, seeds)
        n == Len(d)
        var == IF n > 1 THEN [num |-> n * SumSq(d) - SumSeq(d) * SumSeq(d), den |-> n * n]
               ELSE [num |-> 0, den |-> 1]
        se == StderrSq(var.num, var.den, n)
    IN  [n |-> n, sum_diff |-> SumSeq(d), var |-> var,
         stderr_sq |-> se, z |-> <<ZNum, ZDen>>]

\* normalized_stage_counts
RECURSIVE NormStages(_, _, _)
NormStages(counts, total, out) ==
    IF counts = <<>> THEN out
    ELSE LET v == Max2(1, Min2(total, Head(counts)))
         IN  IF Head(counts) <= 0 THEN NormStages(Tail(counts), total, out)
             ELSE IF out = <<>> \/ out[Len(out)] # v
                  THEN NormStages(Tail(counts), total, Append(out, v))
                  ELSE NormStages(Tail(counts), total, out)

normalized_stage_counts(counts, total) ==
    LET out == NormStages(counts, total, <<>>)
        out1 == IF out = <<>> THEN <<total>> ELSE out
    IN  IF out1[Len(out1)] # total THEN Append(out1, total) ELSE out1

stage_counts == normalized_stage_counts(stage_seed_counts, Len(tuning_seeds))

(***************************************************************************)
(* The simulator and the run executor.                                     *)
(***************************************************************************)
\* hash16 of a configuration file: the live file as the user wrote it has a
\* content hash of its own; a file written by dump_toml for parameter value
\* v hashes by v.
LiveHash == 0

hash16(file) == IF file.dumped THEN file.value + 1 ELSE LiveHash

\* the file dump_toml writes for parameter value v
DumpedFile(v) == [exists |-> TRUE, value |-> v, dumped |-> TRUE]

\* the cache key of run_one (cache_sd's directory name)
Key(h, seed, ey, gpu) ==
    [h |-> h, seed |-> seed, sy |-> start_year, ey |-> ey, ck |-> checkpoint_every, gpu |-> gpu]

\* What a simulator execution that exits 0 may leave in its output
\* directory: a bounded choice per request.  The live configuration gives
\* the baseline result; a run on the backend the configuration does not
\* select is requested by parity alone and only its series value varies;
\* every other request has its clean results and, depending on the seed and
\* the horizon, a missing column, a missing artifact, a persistent
\* extinction or a major violation.
Out(score, viol, ser) == [score |-> score, viol |-> viol, ser |-> ser]

SimOutputs(k) ==
    LET top == 2 * MaxScoreSteps
        first == k.seed = tuning_seeds[1]
        tuning == k.seed \in Range(tuning_seeds)
    IN  CASE k.h = LiveHash -> {Out(2, "none", 0)}
          [] k.h # LiveHash /\ k.gpu # UseGpu -> {Out(2, "none", 0), Out(2, "none", 1)}
          [] k.h # LiveHash /\ k.gpu = UseGpu /\ k.ey = inner_end_year /\ first ->
                {Out(0, "none", 0), Out(top, "none", 1)}
                \cup {Out(x, "none", 0) : x \in Scores \ {0, 2}}
          [] k.h # LiveHash /\ k.gpu = UseGpu /\ k.ey = inner_end_year /\ ~first ->
                {Out(x, "none", 0) : x \in Scores \ {0}}
                \cup {Out(top + 2, "ext", 0), Out(0, "missing_art", 0)}
          [] k.h # LiveHash /\ k.gpu = UseGpu /\ k.ey = medium_end_year /\ tuning /\ first ->
                {Out(top, "none", 0)}
          [] k.h # LiveHash /\ k.gpu = UseGpu /\ k.ey = medium_end_year /\ tuning /\ ~first ->
                {Out(top, "none", 0), Out(top, "ext", 0)}
          [] k.h # LiveHash /\ k.gpu = UseGpu /\ k.ey = medium_end_year /\ ~tuning ->
                {Out(0, "none", 0), Out(2, "none", 0), Out(top, "ext", 0)}
          [] k.h # LiveHash /\ k.gpu = UseGpu /\ k.ey = long_end_year /\ tuning /\ first ->
                {Out(x, "none", 0) : x \in Scores \ {0, 2}}
          [] k.h # LiveHash /\ k.gpu = UseGpu /\ k.ey = long_end_year /\ tuning /\ ~first ->
                {Out(x, "none", 0) : x \in Scores \ {0}}
                \cup {Out(top, "ext", 0), Out(top, "major", 0)}
          [] OTHER ->
                {Out(0, "none", 0), Out(2, "none", 0), Out(top, "ext", 0),
                 Out(top, "broken_ext", 0), Out(2, "major", 0)}

\* run_dir_has_required_artifacts: all four artifacts exist and are non-empty
run_dir_has_required_artifacts(art) == art.viol # "missing_art"

\* evaluate_seed_run on the artifacts of one run directory
evaluate_seed_run(seed, art) ==
    [seed |-> seed, score |-> art.score, viol |-> art.viol, ser |-> art.ser]

\* the key metric series an evaluation retains (empty without a timeseries)
key_series(e) == IF e.viol = "missing_art" THEN <<>> ELSE <<e.ser>>

canary_eps == 0
parity_eps == 0
Inf == 1000000

\* metric_max_error, absolute mode
metric_max_error(a, b) ==
    LET n == Min2(Len(a), Len(b))
        abs(x) == IF x < 0 THEN -x ELSE x
    IN  IF n = 0 THEN Inf
        ELSE CHOOSE m \in {abs(a[i] - b[i]) : i \in 1..n} :
                \A i \in 1..n : abs(a[i] - b[i]) <= m

\* the float NaN, which read_timeseries parses from a cell that says "nan"
NaN == -999999

\* metric_max_error(a, b, mode) <= eps, decided exactly.  mode "absolute":
\* every |a[i] - b[i]| <= eps.  mode "relative", eps in percent:
\* every |a[i] - b[i]| / max(|a[i]|, TINY) <= eps / 100, where a zero a[i]
\* leaves the divisor TINY, which only an equal b[i] passes.  No common
\* index (n = 0) gives the error inf, which passes no tolerance; a NaN
\* sample gives the error NaN, which compares false with every tolerance.
metric_error_within(a, b, mode, eps) ==
    LET n == Min2(Len(a), Len(b))
        abs(x) == IF x < 0 THEN -x ELSE x
    IN  /\ n > 0
        /\ \A i \in 1..n :
              IF a[i] = NaN \/ b[i] = NaN THEN FALSE
              ELSE IF mode = "relative"
              THEN IF a[i] = 0 THEN b[i] = 0
                   ELSE 100 * abs(a[i] - b[i]) <= eps * abs(a[i])
              ELSE abs(a[i] - b[i]) <= eps

\* the sub-series of the metric event_rates_per_century_per_billion
EventRateKeys == {"major_war_rate", "famine_wave_rate", "epidemic_wave_rate"}

\* key_series.get(k, [])
SeriesGet(ks, k) == IF k \in DOMAIN ks THEN ks[k] ELSE <<>>

\* details[...]["pass"] of compare_metric_series for one metric of eps_map
MetricPasses(ka, kb, metric, spec) ==
    IF metric = "event_rates_per_century_per_billion"
    THEN \A k \in EventRateKeys :
            metric_error_within(SeriesGet(ka, k), SeriesGet(kb, k), spec.mode, spec.eps)
    ELSE metric_error_within(SeriesGet(ka, metric), SeriesGet(kb, metric), spec.mode, spec.eps)

\* a comparison whose tolerances are one unit tighter than eps_map gives
compare_key_series_tight(ka, kb, eps_map) ==
    \A metric \in DOMAIN eps_map :
        MetricPasses(ka, kb, metric,
                     [mode |-> eps_map[metric].mode, eps |-> eps_map[metric].eps - 1])

\* compare_metric_series(a, b, eps_map)[0] on the key series of a and of b:
\* every metric eps_map names passes
compare_key_series(ka, kb, eps_map) ==
    \A metric \in DOMAIN eps_map : MetricPasses(ka, kb, metric, eps_map[metric])

\* a comparison that lets every pair of series pass
compare_metric_series_lenient(a, b, eps) == TRUE

\* compare_metric_series(a, b, eps)[0] for the evaluations of the tuning
\* loop, which retain one series and are compared on it absolutely
compare_metric_series(a, b, eps) ==
    compare_key_series([m \in {"world_pop_total"} |-> key_series(a)],
                       [m \in {"world_pop_total"} |-> key_series(b)],
                       [m \in {"world_pop_total"} |-> [mode |-> "absolute", eps |-> eps]])

\* run_one that never stores what it ran
run_one_no_store(cacheOn, cch, k, out) ==
    LET used_cache == cacheOn /\ k \in DOMAIN cch
    IN  IF used_cache THEN [ran |-> FALSE, art |-> cch[k], cache |-> cch]
        ELSE [ran |-> TRUE, art |-> out, cache |-> cch]

\* run_one for one seed whose working directory sd is fresh.  cacheOn is
\* run_cache["enabled"], cch the cache store (key -> artifacts), out what the
\* simulator writes if it is executed.  Result: whether the simulator ran,
\* the artifacts evaluated, and the cache store afterwards.
run_one(cacheOn, cch, k, out) ==
    LET used_cache == cacheOn /\ k \in DOMAIN cch
    IN  IF used_cache
        THEN [ran |-> FALSE, art |-> cch[k], cache |-> cch]
        ELSE [ran |-> TRUE,
              art |-> out,
              cache |-> IF cacheOn /\ run_dir_has_required_artifacts(out)
                        THEN (k :> out) @@ cch
                        ELSE cch]

\* a request that runs the simulator a second time when the first run fails
run_one_request_retry(cacheOn, cch, k, out, rc) ==
    LET r == run_one(cacheOn, cch, k, out)
    IN  IF r.ran /\ rc # 0
        THEN [invoked |-> 2, raised |-> FALSE, art |-> r.art, cache |-> r.cache]
        ELSE [invoked |-> IF r.ran THEN 1 ELSE 0, raised |-> FALSE, art |-> r.art,
              cache |-> r.cache]

\* one seed request of run_one with the exit code rc of the simulator, if it
\* is executed: run_cli raises on rc # 0 before anything is copied to the
\* cache and before the run is evaluated, and nothing catches the error.
\* Result: the number of simulator invocations, whether the request ended in
\* the error, the artifacts evaluated (if any) and the cache store afterwards.
run_one_request(cacheOn, cch, k, out, rc) ==
    LET r == run_one(cacheOn, cch, k, out)
    IN  IF r.ran /\ rc # 0
        THEN [invoked |-> 1, raised |-> TRUE, cache |-> cch]
        ELSE [invoked |-> IF r.ran THEN 1 ELSE 0, raised |-> FALSE, art |-> r.art,
              cache |-> r.cache]

\* run_seed_set over distinct seeds: every seed goes through run_one; the
\* result keeps the order of the seed list.  outs gives, per seed, what the
\* simulator writes if it is executed for that seed.
RECURSIVE run_seed_set(_, _, _, _, _, _, _)
run_seed_set(seeds, h, ey, gpu, cacheOn, cch, outs) ==
    IF seeds = <<>> THEN [evals |-> <<>>, cache |-> cch, ran |-> <<>>]
    ELSE LET k == Key(h, Head(seeds), ey, gpu)
             r == run_one(cacheOn, cch, k, outs[Head(seeds)])
             rest == run_seed_set(Tail(seeds), h, ey, gpu, cacheOn, r.cache, outs)
         IN  [evals |-> <<evaluate_seed_run(Head(seeds), r.art)>> \o rest.evals,
              cache |-> rest.cache,
              ran |-> (IF r.ran
                       THEN <<[key |-> k, complete |-> run_dir_has_required_artifacts(r.art)]>>
                       ELSE <<>>) \o rest.ran]

\* the choices of simulator outputs for a seed list
OutChoices(seeds, h, ey, gpu) ==
    {f \in [Range(seeds) -> UNION {SimOutputs(Key(h, s, ey, gpu)) : s \in Range(seeds)}] :
        \A s \in Range(seeds) : f[s] \in SimOutputs(Key(h, s, ey, gpu))}

\* eval_map_by_seed
eval_map_by_seed(evals) ==
    [s \in {evals[i].seed : i \in DOMAIN evals} |->
        (CHOOSE e \in Range(evals) : e.seed = s)]

\* [m[s] for s in seeds if s in m]
EvalsOf(m, seeds) ==
    LET present == FilterIn(seeds, DOMAIN m)
    IN  [i \in DOMAIN present |-> m[present[i]]]

(***************************************************************************)
(* State of one run of main().                                             *)
(***************************************************************************)
VARIABLES
    pc,                      \* position of main(): start, loop, scout, race, canary,
                             \* parity, medium, long, holdout, decide, final, done, crashed
    it,                      \* number of the current (or last started) iteration
    run_cache_enabled,       \* run_cache["enabled"]
    stop_flag_exists,        \* the stop-flag file exists
    no_write_live_config,    \* args.no_write_live_config
    cache,                   \* run cache directory: key -> artifacts of a complete run
    executed,                \* keys the simulator has been executed for (history)
    completed,               \* keys with an execution that left all artifacts (history)
    dup_exec,                \* some key was executed more than once (history)
    dup_after_complete,      \* a key was executed again after a complete run of it (history)
    launched_after_flag,     \* the simulator was executed while the stop flag existed (history)
    best_cfg,                \* parameter value of the in-memory best configuration
    best_cfg_file,           \* best_sim_config.toml
    live_cfg_file,           \* the --config file
    best_inner_obj, best_inner_holdout_obj,
    best_medium_obj, best_medium_holdout_obj,
    best_obj, best_holdout_obj,
    best_inner_by_seed, best_long_by_seed, best_holdout_by_seed,
    best_top3,
    measured_on,             \* configuration each recorded best was measured on (history)
    consecutive_gate_fail, accepted_since_improve, plateau_same_top3, accepted_iters,
    prev_top3_inner,
    dir_gain,                \* param_stats[path]["dir_gain"] of the tuned parameter
    check_fail_run,          \* consecutive iterations whose canary or parity failed (history)
    stage_fail_run,          \* consecutive iterations that failed the canary, parity, medium,
                             \* long or holdout gate (history)
    stop_reason,
    cand,                    \* locals of the iteration in progress
    iteration_json,          \* iteration.json of the last completed iteration
    final_report,            \* final_report.json
    tickets,                 \* ticket files written
    run_dir,                 \* one run directory handed to evaluate_seed_run
    evals_done,              \* evaluations of run_dir so far: result and files left
    calc,                    \* the last call of a pure function: name, inputs, result
    pool                     \* one call of run_seed_set with its workers

bestVars ==
    <<best_cfg, best_cfg_file, best_inner_obj, best_inner_holdout_obj, best_medium_obj,
      best_medium_holdout_obj, best_obj, best_holdout_obj, best_inner_by_seed,
      best_long_by_seed, best_holdout_by_seed, best_top3, measured_on>>

counterVars ==
    <<consecutive_gate_fail, accepted_since_improve, plateau_same_top3, accepted_iters,
      prev_top3_inner, dir_gain, check_fail_run, stage_fail_run>>

execVars == <<cache, executed, completed, dup_exec, dup_after_complete, launched_after_flag>>

outVars == <<iteration_json, final_report, tickets, live_cfg_file>>

flagVars == <<run_cache_enabled, stop_flag_exists, no_write_live_config>>

\* the state of the function-level specifications (EvalSpec, CalcSpec)
labVars == <<run_dir, evals_done, calc, pool>>

mainVars == <<pc, it, flagVars, execVars, bestVars, counterVars, stop_reason, cand, outVars>>

vars == <<mainVars, labVars>>

NoFile == [exists |-> FALSE]

\* the value of the tuned parameter in the live configuration
ParamInit == 1

\* the locals of an iteration before its candidate is proposed
NoCand ==
    [selected_cfg |-> ParamInit, direction |-> 1, cand_inner_by_seed |-> <<>>, stage |-> 1,
     early_reject |-> FALSE, no_hardfail_tuning |-> FALSE, improve_ok |-> FALSE,
     checks_executed |-> FALSE, inner_lcb_ok |-> FALSE, inner_delta |-> 0, cand_inner_obj |-> 0,
     tune_hardfails |-> {}, cand_inner_top3 |-> <<>>,
     canary_pass |-> FALSE, parity_pass |-> FALSE, canary_detail |-> <<>>,
     parity_detail |-> <<>>, canary_execs |-> 0, parity_execs |-> 0,
     medium_required |-> FALSE, medium_ran |-> FALSE, medium_pass |-> TRUE,
     medium_obj |-> 0, medium_holdout_obj |-> 0,
     medium_hardfails |-> {}, medium_holdout_hardfails |-> {},
     long_ran |-> FALSE, cand_long |-> <<>>, long_hardfails |-> {},
     cand_obj |-> 0, cand_top3 |-> <<>>, objective_delta |-> 0,
     holdout_ran |-> FALSE, cand_hold |-> <<>>, holdout_hardfails |-> {},
     holdout_obj |-> 0, holdout_ok |-> FALSE, accepted |-> FALSE,
     inner_ran |-> <<>>, stage_sets |-> <<>>]

NoDir == [arts |-> {}]

NoCalc == [op |-> "none"]

MainInit ==
    /\ pc = "start"
    /\ it = 0
    /\ run_cache_enabled \in BOOLEAN
    /\ stop_flag_exists = FALSE
    /\ no_write_live_config = FALSE
    /\ cache = <<>>
    /\ executed = {}
    /\ completed = {}
    /\ dup_exec = FALSE
    /\ dup_after_complete = FALSE
    /\ launched_after_flag = FALSE
    /\ best_cfg = ParamInit
    /\ best_cfg_file = [exists |-> TRUE, value |-> ParamInit, dumped |-> TRUE]
    /\ live_cfg_file = [exists |-> TRUE, value |-> ParamInit, dumped |-> FALSE]
    /\ best_inner_obj = 0
    /\ best_inner_holdout_obj = 0
    /\ best_medium_obj = 0
    /\ best_medium_holdout_obj = 0
    /\ best_obj = 0
    /\ best_holdout_obj = 0
    /\ best_inner_by_seed = <<>>
    /\ best_long_by_seed = <<>>
    /\ best_holdout_by_seed = <<>>
    /\ best_top3 = <<>>
    /\ measured_on = [k \in {"inner", "inner_holdout", "medium", "medium_holdout", "long",
                             "holdout", "inner_evals", "long_evals", "holdout_evals"}
                      |-> ParamInit]
    /\ consecutive_gate_fail = 0
    /\ accepted_since_improve = 0
    /\ plateau_same_top3 = 0
    /\ accepted_iters = 0
    /\ prev_top3_inner = <<>>
    /\ dir_gain = [plus |-> 0, minus |-> 0]
    /\ check_fail_run = 0
    /\ stage_fail_run = 0
    /\ stop_reason = ""
    /\ cand = NoCand
    /\ iteration_json = NoFile
    /\ final_report = NoFile
    /\ tickets = {}

\* no call of run_seed_set in progress
NoPool == [phase |-> "idle"]

Init ==
    /\ MainInit
    /\ run_dir = NoDir
    /\ evals_done = <<>>
    /\ calc = NoCalc
    /\ pool = NoPool

(***************************************************************************)
(* Bookkeeping of simulator executions (history variables).                *)
(***************************************************************************)
\* the effect of the simulator executions ran (in order) on the history
\* variables; the history is kept for runs made with the cache enabled
RECURSIVE NoteRuns(_, _, _, _, _)
NoteRuns(ran, ex, done, dup, dac) ==
    IF ran = <<>>
    THEN [executed |-> ex, completed |-> done, dup_exec |-> dup, dup_after_complete |-> dac]
    ELSE LET k == Head(ran).key
         IN  NoteRuns(Tail(ran), ex \cup {k},
                      IF Head(ran).complete THEN done \cup {k} ELSE done,
                      dup \/ k \in ex, dac \/ k \in done)

Noted(ran) ==
    IF run_cache_enabled
    THEN NoteRuns(ran, executed, completed, dup_exec, dup_after_complete)
    ELSE [executed |-> executed, completed |-> completed, dup_exec |-> dup_exec,
          dup_after_complete |-> dup_after_complete]

\* the history variables after the executions ran, the cache store after them
ExecUpdate(ran, cch) ==
    /\ cache' = cch
    /\ executed' = Noted(ran).executed
    /\ completed' = Noted(ran).completed
    /\ dup_exec' = Noted(ran).dup_exec
    /\ dup_after_complete' = Noted(ran).dup_after_complete
    /\ launched_after_flag' = (launched_after_flag \/ (stop_flag_exists /\ ran # <<>>))

(***************************************************************************)
(* main(): baseline.                                                       *)
(***************************************************************************)
MeasuredKinds ==
    {"inner", "inner_holdout", "medium", "medium_holdout", "long", "holdout",
     "inner_evals", "long_evals", "holdout_evals"}

\* The baseline block with no cached baseline on disk: six seed sets on the
\* live configuration file, then its canary and parity runs; the best state
\* is initialised from the baseline aggregates.
Baseline ==
    /\ pc = "start"
    /\ LET h == hash16(live_cfg_file)
           on == run_cache_enabled
       IN  \E o1 \in OutChoices(tuning_seeds, h, inner_end_year, UseGpu),
              o2 \in OutChoices(holdout_seeds, h, inner_end_year, UseGpu),
              o3 \in OutChoices(tuning_seeds, h, medium_end_year, UseGpu),
              o4 \in OutChoices(holdout_seeds, h, medium_end_year, UseGpu),
              o5 \in OutChoices(tuning_seeds, h, long_end_year, UseGpu),
              o6 \in OutChoices(holdout_seeds, h, long_end_year, UseGpu),
              oa \in OutChoices(<<tuning_seeds[1]>>, h, inner_end_year, UseGpu),
              ob \in OutChoices(<<tuning_seeds[1]>>, h, inner_end_year, UseGpu),
              og \in OutChoices(<<tuning_seeds[1]>>, h, inner_end_year, TRUE),
              oc \in OutChoices(<<tuning_seeds[1]>>, h, inner_end_year, FALSE) :
           LET r1 == run_seed_set(tuning_seeds, h, inner_end_year, UseGpu, on, cache, o1)
               r2 == run_seed_set(holdout_seeds, h, inner_end_year, UseGpu, on, r1.cache, o2)
               r3 == run_seed_set(tuning_seeds, h, medium_end_year, UseGpu, on, r2.cache, o3)
               r4 == run_seed_set(holdout_seeds, h, medium_end_year, UseGpu, on, r3.cache, o4)
               r5 == run_seed_set(tuning_seeds, h, long_end_year, UseGpu, on, r4.cache, o5)
               r6 == run_seed_set(holdout_seeds, h, long_end_year, UseGpu, on, r5.cache, o6)
               ra == run_seed_set(<<tuning_seeds[1]>>, h, inner_end_year, UseGpu, on, r6.cache, oa)
               rb == run_seed_set(<<tuning_seeds[1]>>, h, inner_end_year, UseGpu, on, ra.cache, ob)
               rg == run_seed_set(<<tuning_seeds[1]>>, h, inner_end_year, TRUE, on, rb.cache, og)
               rc == run_seed_set(<<tuning_seeds[1]>>, h, inner_end_year, FALSE, on, rg.cache, oc)
               ran == r1.ran \o r2.ran \o r3.ran \o r4.ran \o r5.ran \o r6.ran
                      \o ra.ran \o rb.ran \o rg.ran \o rc.ran
           IN  /\ ExecUpdate(ran, rc.cache)
               /\ best_inner_obj' = aggregate_objective(r1.evals)
               /\ best_inner_holdout_obj' = aggregate_objective(r2.evals)
               /\ best_medium_obj' =
                     IF medium_enabled THEN aggregate_objective(r3.evals)
                     ELSE aggregate_objective(r1.evals)
               /\ best_medium_holdout_obj' =
                     IF medium_enabled THEN aggregate_objective(r4.evals)
                     ELSE aggregate_objective(r2.evals)
               /\ best_obj' = aggregate_objective(r5.evals)
               /\ best_holdout_obj' = aggregate_objective(r6.evals)
               /\ best_top3' = top3_violations(r5.evals)
               /\ best_inner_by_seed' = eval_map_by_seed(r1.evals)
               /\ best_long_by_seed' = eval_map_by_seed(r5.evals)
               /\ best_holdout_by_seed' = eval_map_by_seed(r6.evals)
               /\ prev_top3_inner' = top3_violations(r1.evals)
    /\ measured_on' = [k \in MeasuredKinds |-> live_cfg_file.value]
    /\ pc' = "loop"
    /\ UNCHANGED <<it, flagVars, best_cfg, best_cfg_file, consecutive_gate_fail,
                   accepted_since_improve, plateau_same_top3, accepted_iters, dir_gain,
                   check_fail_run, stage_fail_run, stop_reason, cand, outVars>>
    /\ UNCHANGED labVars

(***************************************************************************)
(* main(): one iteration, from the proposal to the inner gate.             *)
(***************************************************************************)
\* int(x) for a number x counted in halves: the fraction is cut off
\* towards zero
IntOf(x) == IF x >= 0 THEN (x \div 2) * 2 ELSE -(((-x) \div 2) * 2)

\* a step that is clamped to the declared maximum only
apply_step_pdef_upper_only(old_val, pdef, direction) ==
    IF pdef.type = "int"
    THEN Min2(IntOf(pdef.max), IntOf(old_val) + direction * IntOf(pdef.recommended_step))
    ELSE Min2(pdef.max, old_val + direction * pdef.recommended_step)

\* apply_step(old_val, pdef, direction); for an "int" parameter the numbers
\* are counted in halves and go through int()
apply_step_pdef(old_val, pdef, direction) ==
    IF pdef.type = "int"
    THEN Max2(IntOf(pdef.min),
              Min2(IntOf(pdef.max),
                   IntOf(old_val) + direction * IntOf(pdef.recommended_step)))
    ELSE Max2(pdef.min, Min2(pdef.max, old_val + direction * pdef.recommended_step))

\* apply_step for the tuned parameter (a float, recommended_step 1, min 0,
\* max ParamMax)
apply_step(old_val, direction) ==
    apply_step_pdef(old_val, [type |-> "float", min |-> 0, max |-> ParamMax,
                              recommended_step |-> 1], direction)

\* a medium check required in every iteration
MediumRequired_always == medium_enabled

\* medium_required of the iteration in progress
MediumRequired ==
    medium_enabled
    /\ (\/ (medium_check_every_iterations > 0 /\ it % Max2(1, medium_check_every_iterations) = 0)
        \/ (medium_check_every_accepted > 0
            /\ (accepted_iters + 1) % Max2(1, medium_check_every_accepted) = 0))

\* choose_direction for a parameter none of the violation rules names
choose_direction(iteration) == IF iteration % 2 = 0 THEN 1 ELSE -1

\* the direction propose_exploit_candidate settles on: the sign with the
\* larger accumulated inner gain, choose_direction when they are equal
ExploitDirection(iteration) ==
    IF dir_gain.plus # dir_gain.minus
    THEN (IF dir_gain.plus >= dir_gain.minus THEN 1 ELSE -1)
    ELSE choose_direction(iteration)

\* a tuner that never looks at the stop flag
StopFlagSeen_never == FALSE

\* stop_flag is not None and stop_flag.exists(), evaluated at the top of an
\* iteration and after the iteration record is written
StopFlagSeen == stop_flag_exists

\* The head of the for loop: the loop ends when max_iterations are done or
\* the stop flag exists; otherwise the exploit lane proposes one step of the
\* tuned parameter and the candidate file is dumped.
IterStart ==
    /\ pc = "loop"
    /\ \/ /\ it >= MaxIterations
          /\ pc' = "final"
          /\ UNCHANGED <<it, stop_reason, cand>>
       \/ /\ it < MaxIterations
          /\ StopFlagSeen
          /\ stop_reason' = "MANUAL_STOP"
          /\ pc' = "final"
          /\ UNCHANGED <<it, cand>>
       \/ /\ it < MaxIterations
          /\ ~StopFlagSeen
          /\ it' = it + 1
          /\ cand' = [NoCand EXCEPT
                         !.direction = ExploitDirection(it + 1),
                         !.selected_cfg = apply_step(best_cfg, ExploitDirection(it + 1))]
          /\ pc' = "scout"
          /\ UNCHANGED stop_reason
    /\ UNCHANGED <<flagVars, execVars, bestVars, counterVars, outVars>>
    /\ UNCHANGED labVars

\* the cache hash of the selected candidate's configuration file
CandHash == hash16(DumpedFile(cand.selected_cfg))

\* the seeds the simulator was executed for (history)
SeedsRan(ran) == [i \in DOMAIN ran |-> ran[i].key.seed]

scout_seeds == Prefix(tuning_seeds, Min2(stage_counts[1], Len(tuning_seeds)))

\* The scout run of the (single) lane; the lane is selected.
Scout ==
    /\ pc = "scout"
    /\ \E o \in OutChoices(scout_seeds, CandHash, inner_end_year, UseGpu) :
          LET r == run_seed_set(scout_seeds, CandHash, inner_end_year, UseGpu,
                                run_cache_enabled, cache, o)
          IN  /\ ExecUpdate(r.ran, r.cache)
              /\ cand' = [cand EXCEPT !.cand_inner_by_seed = eval_map_by_seed(r.evals),
                                       !.inner_ran = SeedsRan(r.ran)]
    /\ pc' = "race"
    /\ UNCHANGED <<it, flagVars, bestVars, counterVars, stop_reason, outVars>>
    /\ UNCHANGED labVars

\* the objective of the incumbent over the seeds given, best_inner_obj if none
IncumbentInnerObj(seeds) ==
    LET inc == EvalsOf(best_inner_by_seed, seeds)
    IN  IF inc # <<>> THEN aggregate_objective(inc) ELSE best_inner_obj

\* improve_ok with the bar two units above min_delta
InnerImproveOk_higher_bar(inner_delta, m, seeds) ==
    /\ inner_delta >= min_delta + 2
    /\ (~paired_enabled
        \/ PairedLcbAtLeast(m, best_inner_by_seed, seeds, paired_min_inner_lcb_delta))

\* improve_ok of the inner gate
InnerImproveOk(inner_delta, m, seeds) ==
    /\ inner_delta >= min_delta
    /\ (~paired_enabled
        \/ PairedLcbAtLeast(m, best_inner_by_seed, seeds, paired_min_inner_lcb_delta))

\* The statements after the racing loop: the inner aggregate of the
\* candidate over the seeds it was evaluated on, and the inner gate.
InnerGate(c, m, early) ==
    LET evaluated_inner_seeds == FilterIn(tuning_seeds, DOMAIN m)
        cand_inner == EvalsOf(m, tuning_seeds)
        obj == aggregate_objective(cand_inner)
        hf == HardfailIds(cand_inner)
        delta == obj - IncumbentInnerObj(evaluated_inner_seeds)
        ok == InnerImproveOk(delta, m, evaluated_inner_seeds)
    IN  [c EXCEPT !.cand_inner_by_seed = m,
                  !.early_reject = early,
                  !.cand_inner_obj = obj,
                  !.cand_inner_top3 = top3_violations(cand_inner),
                  !.tune_hardfails = hf,
                  !.inner_delta = delta,
                  !.objective_delta = delta,
                  !.cand_obj = obj,
                  !.cand_top3 = top3_violations(cand_inner),
                  !.no_hardfail_tuning = (hf = {}),
                  !.improve_ok = ok,
                  !.inner_lcb_ok =
                     (~paired_enabled
                      \/ PairedLcbAtLeast(m, best_inner_by_seed, evaluated_inner_seeds,
                                          paired_min_inner_lcb_delta)),
                  !.checks_executed = ((hf = {}) /\ ok /\ ~early),
                  !.medium_required = MediumRequired]

\* an early reject that looks at the raw delta only
EarlyRejectFor_raw_only(racing, paired_on, stage_n, total, stage_delta, m, inc, subset) ==
    /\ racing
    /\ stage_n < total
    /\ stage_delta < min_delta - early_reject_margin

\* reject_obj or reject_pair of a racing stage below the full seed count
EarlyRejectFor(racing, paired_on, stage_n, total, stage_delta, m, inc, subset) ==
    /\ racing
    /\ stage_n < total
    /\ \/ stage_delta < min_delta - early_reject_margin
       \/ /\ paired_on
          /\ PairedN(m, inc, subset) >= 2
          /\ ~PairedLcbAtLeast(m, inc, subset,
                               paired_min_inner_lcb_delta - early_reject_margin)

\* early reject of a racing stage of the tuning loop
EarlyReject(stage_n, stage_delta, m, subset) ==
    EarlyRejectFor(racing_enabled, paired_enabled, stage_n, Len(tuning_seeds), stage_delta,
                   m, best_inner_by_seed, subset)

\* a racing stage that runs its whole subset again
Need_whole_subset(subset, m) == subset

\* need: the seeds of the stage's subset with no result yet
Need(subset, m) == FilterIn(subset, Range(subset) \ DOMAIN m)

\* a racing loop that ends after its first stage
LastStage_first(stage) == TRUE

\* the racing loop is at the last of stage_counts
LastStage(stage) == stage = Len(stage_counts)

\* One pass of the racing loop: run the seeds of the stage that have no
\* result yet, compare with the incumbent over the stage's seeds, reject
\* early or go on; after the last pass (or an early reject) the inner gate
\* is evaluated.
RaceStage ==
    /\ pc = "race"
    /\ LET stage_n == stage_counts[cand.stage]
           subset == Prefix(tuning_seeds, stage_n)
           need == Need(subset, cand.cand_inner_by_seed)
       IN  \E o \in OutChoices(need, CandHash, inner_end_year, UseGpu) :
             LET r == run_seed_set(need, CandHash, inner_end_year, UseGpu,
                                   run_cache_enabled, cache, o)
                 m == eval_map_by_seed(r.evals) @@ cand.cand_inner_by_seed
                 cand_stage == EvalsOf(m, subset)
                 stage_delta == aggregate_objective(cand_stage) - IncumbentInnerObj(subset)
                 early == EarlyReject(stage_n, stage_delta, m, subset)
                 last == LastStage(cand.stage)
                 seen == [cand EXCEPT
                            !.inner_ran = @ \o SeedsRan(r.ran),
                            !.stage_sets = Append(@,
                               [stage_n |-> stage_n,
                                cand_seeds |-> FilterIn(subset, DOMAIN m),
                                inc_seeds |-> FilterIn(subset, DOMAIN best_inner_by_seed)])]
             IN  /\ ExecUpdate(r.ran, r.cache)
                 /\ IF early \/ last
                    THEN /\ cand' = InnerGate(seen, m, early)
                         /\ pc' = IF cand'.checks_executed THEN "canary" ELSE "decide"
                    ELSE /\ cand' = [seen EXCEPT !.cand_inner_by_seed = m,
                                                 !.stage = cand.stage + 1]
                         /\ pc' = "race"
    /\ UNCHANGED <<it, flagVars, bestVars, counterVars, stop_reason, outVars>>
    /\ UNCHANGED labVars

(***************************************************************************)
(* main(): canary, parity and the promotion stages of an iteration.        *)
(***************************************************************************)
\* Canary: the first tuning seed is requested twice (directories canary/a
\* and canary/b) for the candidate on the inner horizon and its own backend.
Canary ==
    /\ pc = "canary"
    /\ LET one == <<tuning_seeds[1]>>
       IN  \E oa \in OutChoices(one, CandHash, inner_end_year, UseGpu),
              ob \in OutChoices(one, CandHash, inner_end_year, UseGpu) :
             LET ra == run_seed_set(one, CandHash, inner_end_year, UseGpu,
                                    run_cache_enabled, cache, oa)
                 rb == run_seed_set(one, CandHash, inner_end_year, UseGpu,
                                    run_cache_enabled, ra.cache, ob)
             IN  /\ ExecUpdate(ra.ran \o rb.ran, rb.cache)
                 /\ cand' = [cand EXCEPT
                       !.canary_pass = compare_metric_series(ra.evals[1], rb.evals[1], canary_eps),
                       !.canary_detail = <<[max_error |-> metric_max_error(key_series(ra.evals[1]), key_series(rb.evals[1]))]>>,
                       !.canary_execs = Len(ra.ran) + Len(rb.ran)]
    /\ pc' = "parity"
    /\ UNCHANGED <<it, flagVars, bestVars, counterVars, stop_reason, outVars>>
    /\ UNCHANGED labVars

\* Parity: the same seed once on the GPU backend and once on the CPU backend.
Parity ==
    /\ pc = "parity"
    /\ LET one == <<tuning_seeds[1]>>
       IN  \E og \in OutChoices(one, CandHash, inner_end_year, TRUE),
              oc \in OutChoices(one, CandHash, inner_end_year, FALSE) :
             LET rg == run_seed_set(one, CandHash, inner_end_year, TRUE,
                                    run_cache_enabled, cache, og)
                 rc == run_seed_set(one, CandHash, inner_end_year, FALSE,
                                    run_cache_enabled, rg.cache, oc)
                 ok == compare_metric_series(rg.evals[1], rc.evals[1], parity_eps)
             IN  /\ ExecUpdate(rg.ran \o rc.ran, rc.cache)
                 /\ cand' = [cand EXCEPT !.parity_pass = ok,
                                         !.parity_detail =
                                            <<[max_error |-> metric_max_error(key_series(rg.evals[1]),
                                                                          key_series(rc.evals[1]))]>>,
                                         !.parity_execs = Len(rg.ran) + Len(rc.ran)]
                 /\ pc' = IF cand.canary_pass /\ ok
                          THEN (IF cand.medium_required THEN "medium" ELSE "long")
                          ELSE "decide"
    /\ UNCHANGED <<it, flagVars, bestVars, counterVars, stop_reason, outVars>>
    /\ UNCHANGED labVars

\* medium_pass without the gate on the medium holdout objective
MediumPass_no_objective(hf, hold_hf, hold_obj) ==
    /\ hf = {}
    /\ Cardinality(hold_hf) <= holdout_hardfail_max

\* medium_pass
MediumPass(hf, hold_hf, hold_obj) ==
    /\ hf = {}
    /\ Cardinality(hold_hf) <= holdout_hardfail_max
    /\ hold_obj >= best_medium_holdout_obj + holdout_delta_req

\* Medium horizon check: tuning seeds, then holdout seeds.
Medium ==
    /\ pc = "medium"
    /\ \E ot \in OutChoices(tuning_seeds, CandHash, medium_end_year, UseGpu),
          oh \in OutChoices(holdout_seeds, CandHash, medium_end_year, UseGpu) :
          LET rt == run_seed_set(tuning_seeds, CandHash, medium_end_year, UseGpu,
                                 run_cache_enabled, cache, ot)
              rh == run_seed_set(holdout_seeds, CandHash, medium_end_year, UseGpu,
                                 run_cache_enabled, rt.cache, oh)
              ok == MediumPass(HardfailIds(rt.evals), HardfailIds(rh.evals),
                               aggregate_objective(rh.evals))
          IN  /\ ExecUpdate(rt.ran \o rh.ran, rh.cache)
              /\ cand' = [cand EXCEPT !.medium_ran = TRUE,
                                      !.medium_obj = aggregate_objective(rt.evals),
                                      !.medium_hardfails = HardfailIds(rt.evals),
                                      !.medium_holdout_obj = aggregate_objective(rh.evals),
                                      !.medium_holdout_hardfails = HardfailIds(rh.evals),
                                      !.medium_pass = ok]
              /\ pc' = IF ok THEN "long" ELSE "decide"
    /\ UNCHANGED <<it, flagVars, bestVars, counterVars, stop_reason, outVars>>
    /\ UNCHANGED labVars

\* a long stage whose improvement gate lets every candidate through
LongImproveOk_always(objective_delta, m) == TRUE

\* long_improve_ok
LongImproveOk(objective_delta, m) ==
    /\ objective_delta >= min_delta
    /\ (~paired_enabled
        \/ PairedLcbAtLeast(m, best_long_by_seed, tuning_seeds, paired_min_long_lcb_delta))

\* Long horizon promotion check on the tuning seeds.
Long ==
    /\ pc = "long"
    /\ \E o \in OutChoices(tuning_seeds, CandHash, long_end_year, UseGpu) :
          LET r == run_seed_set(tuning_seeds, CandHash, long_end_year, UseGpu,
                                run_cache_enabled, cache, o)
              obj == aggregate_objective(r.evals)
              delta == obj - best_obj
              hf == HardfailIds(r.evals)
          IN  /\ ExecUpdate(r.ran, r.cache)
              /\ cand' = [cand EXCEPT !.long_ran = TRUE,
                                      !.cand_long = r.evals,
                                      !.cand_obj = obj,
                                      !.cand_top3 = top3_violations(r.evals),
                                      !.long_hardfails = hf,
                                      !.objective_delta = delta]
              /\ pc' = IF hf = {} /\ LongImproveOk(delta, eval_map_by_seed(r.evals))
                       THEN "holdout" ELSE "decide"
    /\ UNCHANGED <<it, flagVars, bestVars, counterVars, stop_reason, outVars>>
    /\ UNCHANGED labVars

\* holdout_ok without the paired lower bound
HoldoutOkFor_no_paired(hf, obj, m, seeds, inc_obj, inc_by_seed) ==
    /\ Cardinality(hf) <= holdout_hardfail_max
    /\ obj >= inc_obj + holdout_delta_req

\* holdout_ok for the sorted set hf of hard-fail ids of the holdout
\* evaluations, their objective and their map by seed, against the
\* incumbent's holdout objective and evaluations
HoldoutOkFor(hf, obj, m, seeds, inc_obj, inc_by_seed) ==
    /\ Cardinality(hf) <= holdout_hardfail_max
    /\ obj >= inc_obj + holdout_delta_req
    /\ (~paired_enabled
        \/ PairedLcbAtLeast(m, inc_by_seed, seeds, paired_min_holdout_lcb_delta))

\* holdout_ok without the cap on the hard-fail ids
HoldoutOk_uncapped(hf, obj, m) ==
    /\ obj >= best_holdout_obj + holdout_delta_req
    /\ (~paired_enabled
        \/ PairedLcbAtLeast(m, best_holdout_by_seed, holdout_seeds,
                            paired_min_holdout_lcb_delta))

\* holdout_ok
HoldoutOk(hf, obj, m) ==
    HoldoutOkFor(hf, obj, m, holdout_seeds, best_holdout_obj, best_holdout_by_seed)

\* Long horizon validation on the holdout seeds.
Holdout ==
    /\ pc = "holdout"
    /\ \E o \in OutChoices(holdout_seeds, CandHash, long_end_year, UseGpu) :
          LET r == run_seed_set(holdout_seeds, CandHash, long_end_year, UseGpu,
                                run_cache_enabled, cache, o)
              obj == aggregate_objective(r.evals)
              hf == HardfailIds(r.evals)
          IN  /\ ExecUpdate(r.ran, r.cache)
              /\ cand' = [cand EXCEPT !.holdout_ran = TRUE,
                                      !.cand_hold = r.evals,
                                      !.holdout_obj = obj,
                                      !.holdout_hardfails = hf,
                                      !.holdout_ok = HoldoutOk(hf, obj, eval_map_by_seed(r.evals))]
    /\ pc' = "decide"
    /\ UNCHANGED <<it, flagVars, bestVars, counterVars, stop_reason, outVars>>
    /\ UNCHANGED labVars

(***************************************************************************)
(* main(): the decision of an iteration and the stop checks after it.      *)
(***************************************************************************)
\* accepted without the holdout verdict
Accepted_without_holdout(c) ==
    /\ c.no_hardfail_tuning
    /\ c.improve_ok
    /\ c.canary_pass
    /\ c.parity_pass
    /\ c.medium_pass
    /\ c.long_ran

\* accepted
Accepted(c) ==
    /\ c.no_hardfail_tuning
    /\ c.improve_ok
    /\ c.canary_pass
    /\ c.parity_pass
    /\ c.medium_pass
    /\ c.long_ran
    /\ c.holdout_ok

\* gate_failed
GateFailed(c) ==
    \/ "MISSING_METRIC" \in c.tune_hardfails
    \/ (c.checks_executed /\ ~c.canary_pass)
    \/ (c.checks_executed /\ ~c.parity_pass)

\* a plateau counter that is never reset
PlateauAfter_no_reset(c) ==
    IF c.cand_inner_top3 = prev_top3_inner /\ c.inner_delta < min_delta
    THEN plateau_same_top3 + 1 ELSE plateau_same_top3

\* plateau_same_top3 after the iteration
PlateauAfter(c) ==
    IF c.cand_inner_top3 = prev_top3_inner /\ c.inner_delta < min_delta
    THEN plateau_same_top3 + 1 ELSE 0

\* any violation of major severity in the evaluations
HasMajor(evals) ==
    \E i \in 1..Len(evals) : \E v \in Range(Violations(evals[i])) :
        v.severity >= major_violation_threshold

\* major_left
MajorLeft(c) ==
    \/ HasMajor(IF c.long_ran THEN c.cand_long ELSE EvalsOf(c.cand_inner_by_seed, tuning_seeds))
    \/ HasMajor(IF c.holdout_ok THEN c.cand_hold ELSE <<>>)

\* a convergence test that does not wait for iterations without acceptance
Converged_no_wait(c, acc_iters, since, top3) ==
    /\ acc_iters >= convergence_iterations
    /\ top3 = c.cand_top3

\* the convergence test of the loop
Converged(c, acc_iters, since, top3) ==
    /\ acc_iters >= convergence_iterations
    /\ since >= convergence_iterations
    /\ top3 = c.cand_top3

\* the stop checks without the SAFETY check
StopCheck_no_safety(c, flag, acc_iters, since, top3, obj, plateau, gate_fail) ==
    IF flag THEN "MANUAL_STOP"
    ELSE IF Converged(c, acc_iters, since, top3) THEN "CONVERGENCE"
    ELSE IF obj >= target_objective /\ ~MajorLeft(c) THEN "TARGET_REALISM"
    ELSE IF plateau >= plateau_iterations_structural THEN "STRUCTURAL_CHANGE_SIGNAL"
    ELSE ""

\* The stop checks at the end of an iteration, in the order of the code;
\* "" when the loop goes on.
StopCheck(c, flag, acc_iters, since, top3, obj, plateau, gate_fail) ==
    IF flag THEN "MANUAL_STOP"
    ELSE IF Converged(c, acc_iters, since, top3) THEN "CONVERGENCE"
    ELSE IF obj >= target_objective /\ ~MajorLeft(c) THEN "TARGET_REALISM"
    ELSE IF plateau >= plateau_iterations_structural THEN "STRUCTURAL_CHANGE_SIGNAL"
    ELSE IF gate_fail >= SafetyFailLimit THEN "SAFETY"
    ELSE ""

\* best_obj taken from the candidate whether it was accepted or not
BestObjAfter_unconditional(acc, c) == c.cand_obj

\* best_obj after the iteration
BestObjAfter(acc, c) == IF acc THEN c.cand_obj ELSE best_obj

\* best_top3 taken from the candidate whether it was accepted or not
BestTop3After_unconditional(acc, c) == c.cand_top3

\* best_top3 after the iteration
BestTop3After(acc, c) == IF acc THEN c.cand_top3 ELSE best_top3

\* consecutive_gate_fail after the iteration
GateFailAfter(c) == IF GateFailed(c) THEN consecutive_gate_fail + 1 ELSE 0

\* the configuration each best value was measured on, after an accepted iteration
MeasuredAfterAccept(c) ==
    [k \in MeasuredKinds |->
        IF k \in {"inner", "inner_evals", "long", "long_evals", "holdout", "holdout_evals"}
        THEN c.selected_cfg
        ELSE IF k \in {"medium", "medium_holdout"} /\ c.medium_ran THEN c.selected_cfg
        ELSE measured_on[k]]

\* an accept that keeps the scout seeds' evaluations only
BestInnerBySeedAfter_scout_only(acc, c) ==
    IF acc THEN eval_map_by_seed(EvalsOf(c.cand_inner_by_seed, scout_seeds))
    ELSE best_inner_by_seed

\* best_inner_by_seed after the iteration: on accept the candidate's
\* evaluations of the tuning seeds
BestInnerBySeedAfter(acc, c) ==
    IF acc THEN eval_map_by_seed(EvalsOf(c.cand_inner_by_seed, tuning_seeds))
    ELSE best_inner_by_seed

\* the iteration ran the canary, parity, medium, long or holdout stage and
\* the candidate did not clear it
StageGateFailed(c) ==
    \/ (c.checks_executed /\ ~(c.canary_pass /\ c.parity_pass))
    \/ (c.medium_ran /\ ~c.medium_pass)
    \/ (c.long_ran /\ ~c.holdout_ran)
    \/ (c.holdout_ran /\ ~c.holdout_ok)

\* From `accepted` to the break statements of the loop body.
Decide ==
    /\ pc = "decide"
    /\ LET acc == Accepted(cand)
       IN  /\ cand' = NoCand
           /\ best_cfg' = IF acc THEN cand.selected_cfg ELSE best_cfg
           /\ best_cfg_file' = IF acc THEN DumpedFile(cand.selected_cfg) ELSE best_cfg_file
           /\ best_inner_obj' = IF acc THEN cand.cand_inner_obj ELSE best_inner_obj
           /\ best_inner_by_seed' = BestInnerBySeedAfter(acc, cand)
           /\ best_medium_obj' =
                 IF acc /\ cand.medium_ran THEN cand.medium_obj ELSE best_medium_obj
           /\ best_medium_holdout_obj' =
                 IF acc /\ cand.medium_ran THEN cand.medium_holdout_obj
                 ELSE best_medium_holdout_obj
           /\ best_obj' = BestObjAfter(acc, cand)
           /\ best_holdout_obj' = IF acc THEN cand.holdout_obj ELSE best_holdout_obj
           /\ best_long_by_seed' =
                 IF acc THEN eval_map_by_seed(cand.cand_long) ELSE best_long_by_seed
           /\ best_holdout_by_seed' =
                 IF acc THEN eval_map_by_seed(cand.cand_hold) ELSE best_holdout_by_seed
           /\ best_top3' = BestTop3After(acc, cand)
           /\ measured_on' = IF acc THEN MeasuredAfterAccept(cand) ELSE measured_on
           /\ accepted_iters' = IF acc THEN accepted_iters + 1 ELSE accepted_iters
           /\ accepted_since_improve' = IF acc THEN 0 ELSE accepted_since_improve + 1
           /\ consecutive_gate_fail' = GateFailAfter(cand)
           /\ plateau_same_top3' = PlateauAfter(cand)
           /\ prev_top3_inner' = cand.cand_inner_top3
           /\ check_fail_run' =
                 IF cand.checks_executed /\ ~(cand.canary_pass /\ cand.parity_pass)
                 THEN check_fail_run + 1 ELSE 0
           /\ stage_fail_run' = IF StageGateFailed(cand) THEN stage_fail_run + 1 ELSE 0
           /\ dir_gain' = IF cand.direction > 0
                          THEN [dir_gain EXCEPT !.plus = @ + cand.inner_delta]
                          ELSE [dir_gain EXCEPT !.minus = @ + cand.inner_delta]
           /\ iteration_json' = [exists |-> TRUE, iteration |-> it, accepted |-> acc]
           /\ stop_reason' = StopCheck(cand, StopFlagSeen, accepted_iters',
                                       accepted_since_improve', best_top3', best_obj',
                                       plateau_same_top3', consecutive_gate_fail')
           /\ pc' = IF stop_reason' # "" THEN "final" ELSE "loop"
    /\ UNCHANGED <<it, flagVars, execVars, best_inner_holdout_obj, final_report, tickets,
                   live_cfg_file>>
    /\ UNCHANGED labVars

(***************************************************************************)
(* main(): the final outputs.                                              *)
(***************************************************************************)
\* a final report that gives the stop reason as the loop left it
StopCondition_no_default == stop_reason

\* final["stop_condition"]
StopCondition == IF stop_reason # "" THEN stop_reason ELSE "MAX_ITERATIONS"

\* the ticket files written for the stop condition
TicketsFor(sc) ==
    IF sc = "STRUCTURAL_CHANGE_SIGNAL" THEN {"mechanism_gap_ticket.json"}
    ELSE IF sc = "SAFETY" THEN {"safety_stop_minimal_fix.json"}
    ELSE {}

\* final_report.json, the copy of the best configuration over the live one
\* unless --no-write-live-config, and the tickets.
Final ==
    /\ pc = "final"
    /\ final_report' = [exists |-> TRUE, stop_condition |-> StopCondition,
                        best_objective |-> best_obj,
                        best_config_hash16 |-> hash16(best_cfg_file)]
    /\ \E arg \in BOOLEAN :
          /\ no_write_live_config' = arg
          /\ live_cfg_file' = IF arg THEN live_cfg_file ELSE best_cfg_file
    /\ tickets' = TicketsFor(StopCondition)
    /\ pc' = "done"
    /\ UNCHANGED <<it, run_cache_enabled, stop_flag_exists, execVars, bestVars, counterVars, stop_reason, cand,
                   iteration_json>>
    /\ UNCHANGED labVars

(***************************************************************************)
(* The environment: a simulator process that fails, the stop flag file.    *)
(***************************************************************************)
\* the cache keys of the seed requests made at the current position
RequestedKeys ==
    LET h == IF pc = "start" THEN hash16(live_cfg_file) ELSE CandHash
        K(seeds, ey, gpu) == {Key(h, seeds[i], ey, gpu) : i \in 1..Len(seeds)}
    IN  CASE pc = "start" ->
                K(tuning_seeds, inner_end_year, UseGpu) \cup K(holdout_seeds, inner_end_year, UseGpu)
                \cup K(tuning_seeds, medium_end_year, UseGpu)
                \cup K(holdout_seeds, medium_end_year, UseGpu)
                \cup K(tuning_seeds, long_end_year, UseGpu)
                \cup K(holdout_seeds, long_end_year, UseGpu)
                \cup K(<<tuning_seeds[1]>>, inner_end_year, TRUE)
                \cup K(<<tuning_seeds[1]>>, inner_end_year, FALSE)
          [] pc = "scout" -> K(scout_seeds, inner_end_year, UseGpu)
          [] pc = "race" ->
                K(FilterIn(Prefix(tuning_seeds, stage_counts[cand.stage]),
                           Range(tuning_seeds) \ DOMAIN cand.cand_inner_by_seed),
                  inner_end_year, UseGpu)
          [] pc = "canary" -> K(<<tuning_seeds[1]>>, inner_end_year, UseGpu)
          [] pc = "parity" -> K(<<tuning_seeds[1]>>, inner_end_year, TRUE)
                              \cup K(<<tuning_seeds[1]>>, inner_end_year, FALSE)
          [] pc = "medium" -> K(tuning_seeds, medium_end_year, UseGpu)
                              \cup K(holdout_seeds, medium_end_year, UseGpu)
          [] pc = "long" -> K(tuning_seeds, long_end_year, UseGpu)
          [] pc = "holdout" -> K(holdout_seeds, long_end_year, UseGpu)
          [] OTHER -> {}

\* run_cli raises on a non-zero exit code: the request that executed the
\* simulator ends in an error nothing catches, and the process ends without
\* its final outputs.  Nothing is stored under the key of the failed run.
SimulatorFails ==
    /\ \E k \in RequestedKeys :
          LET r == run_one_request(run_cache_enabled, cache, k, Out(0, "none", 0), 1)
              ran == <<[key |-> k, complete |-> FALSE]>>
          IN  /\ r.raised
              /\ cache' = r.cache
              /\ executed' = Noted(ran).executed
              /\ dup_exec' = Noted(ran).dup_exec
              /\ dup_after_complete' = Noted(ran).dup_after_complete
              /\ launched_after_flag' = (launched_after_flag \/ stop_flag_exists)
    /\ pc' = "crashed"
    /\ UNCHANGED <<it, flagVars, completed, bestVars, counterVars, stop_reason, cand,
                   outVars>>
    /\ UNCHANGED labVars

\* The operator creates the stop flag file while the tuner runs: during the
\* baseline, between two iterations or at any point of an iteration.
CreateStopFlag ==
    /\ pc \in {"start", "loop", "scout", "race", "canary", "parity", "medium", "long",
              "holdout", "decide"}
    /\ ~stop_flag_exists
    /\ stop_flag_exists' = TRUE
    /\ UNCHANGED <<pc, it, run_cache_enabled, no_write_live_config, execVars, bestVars,
                   counterVars, stop_reason, cand, outVars>>
    /\ UNCHANGED labVars

Next ==
    \/ Baseline
    \/ IterStart
    \/ Scout
    \/ RaceStage
    \/ Canary
    \/ Parity
    \/ Medium
    \/ Long
    \/ Holdout
    \/ Decide
    \/ Final
    \/ SimulatorFails
    \/ CreateStopFlag

Spec == Init /\ [][Next]_vars

(***************************************************************************)
(* evaluate_seed_run on a run directory.  A directory holds some of the    *)
(* four required artifacts.  Of timeseries.csv the rows' year and          *)
(* population, whether the required columns are there and the severity of  *)
(* the transport check on the last row are kept; the four component scores *)
(* of a checkpoint are not computed: every checkpoint scores CkScore.  Of  *)
(* run_summary.json its keys, its invariants flag and, once the evaluator  *)
(* wrote it, the summary written are kept.  Severities are in percent and  *)
(* scores and penalties in 1/10000 of a point (PenaltyUnit).               *)
(***************************************************************************)
REQUIRED_RUN_ARTIFACTS == {"run_meta.json", "run_summary.json", "timeseries.csv", "violations.json"}

extinction_pop_floor == 1
extinction_grace_years == 1
adequacy_var_window_N == 2
depletion_monotonic_window_M == 2
PenaltyUnit == 10000
CkScore == 1

\* thresholds Pmax_major, Pmax_medium, Pmax_minor and the id classes of the
\* definitions document
Pmax_major == 30
Pmax_medium == 15
Pmax_minor == 5
hardfail_ids == {"MISSING_METRIC", "BROKEN_ACCOUNTING", "EXTINCTION_PERSISTENT"}
anti_ids == {"STORAGE_SMOOTHING_CHEAT", "TRANSPORT_CHEAT", "DEPLETION_IGNORED"}

\* the keys of the run_summary.json the evaluator writes
EvalSummaryKeys ==
    {"seed", "base_score_seed", "total_score", "penalty_points", "gates", "top_violations",
     "scalar_metrics", "checkpoint_scores", "checkpoints"}

Has(dir, name) == name \in dir.arts

\* read_timeseries(out_dir / "timeseries.csv") if the file exists else []
TimeseriesRows(dir) == IF Has(dir, "timeseries.csv") THEN dir.rows ELSE <<>>

\* load_json(out_dir / "run_summary.json") if the file exists else {}
SummaryKeys(dir) == IF Has(dir, "run_summary.json") THEN dir.summary.keys ELSE {}

\* an availability check that looks at columns and keys and not at which
\* artifacts exist
check_metric_availability_keys_only(dir) ==
    LET ok == /\ (Has(dir, "timeseries.csv") => dir.rows # <<>> /\ dir.cols_ok)
              /\ (Has(dir, "run_meta.json") => dir.meta_keys_ok)
              /\ (Has(dir, "run_summary.json") =>
                     dir.required_run_summary_keys \subseteq dir.summary.keys)
    IN  [ok |-> ok,
         violations |-> IF ok THEN <<>>
                        ELSE <<[id |-> "MISSING_METRIC", severity |-> 100, hardfail |-> TRUE]>>]

\* check_metric_availability: ok, and the MISSING_METRIC violation if not ok
check_metric_availability(dir) ==
    LET missing_artifacts == REQUIRED_RUN_ARTIFACTS \ dir.arts
        missing_timeseries_columns ==
            IF Has(dir, "timeseries.csv")
            THEN dir.rows = <<>> \/ ~dir.cols_ok
            ELSE TRUE
        missing_run_meta_keys ==
            IF Has(dir, "run_meta.json") THEN ~dir.meta_keys_ok ELSE TRUE
        missing_run_summary_keys == dir.required_run_summary_keys \ SummaryKeys(dir)
        ok == /\ missing_artifacts = {}
              /\ ~missing_timeseries_columns
              /\ ~missing_run_meta_keys
              /\ missing_run_summary_keys = {}
    IN  [ok |-> ok,
         violations |-> IF ok THEN <<>>
                        ELSE <<[id |-> "MISSING_METRIC", severity |-> 100, hardfail |-> TRUE]>>]

\* an extinction check that keeps counting from the first sample ever below
\* the floor, whatever recovery came after it
RECURSIVE ExtinctionFrom_no_reset(_, _, _)
ExtinctionFrom_no_reset(rows, i, first_below_idx) ==
    IF i > Len(rows) THEN <<>>
    ELSE IF rows[i].pop < extinction_pop_floor
         THEN LET first == IF first_below_idx = 0 THEN i ELSE first_below_idx
              IN  IF rows[i].year - rows[first].year > extinction_grace_years
                  THEN <<[id |-> "EXTINCTION_PERSISTENT", severity |-> 100, hardfail |-> TRUE]>>
                  ELSE ExtinctionFrom_no_reset(rows, i + 1, first)
         ELSE ExtinctionFrom_no_reset(rows, i + 1, first_below_idx)

\* the extinction loop from row i on, first_below_idx being the row where
\* the current below-floor span began (0: None); it stops at the first
\* violation it appends
RECURSIVE ExtinctionFrom(_, _, _)
ExtinctionFrom(rows, i, first_below_idx) ==
    IF i > Len(rows) THEN <<>>
    ELSE IF rows[i].pop < extinction_pop_floor
         THEN LET first == IF first_below_idx = 0 THEN i ELSE first_below_idx
              IN  IF rows[i].year - rows[first].year > extinction_grace_years
                  THEN <<[id |-> "EXTINCTION_PERSISTENT", severity |-> 100, hardfail |-> TRUE]>>
                  ELSE ExtinctionFrom(rows, i + 1, first)
         ELSE ExtinctionFrom(rows, i + 1, 0)

\* clamp01(severity / 100.0), in percent
ClampSeverity(sev) == Max2(0, Min2(100, sev))

pmax_for(vid) ==
    IF vid \in hardfail_ids THEN Pmax_major
    ELSE IF vid \in anti_ids THEN Pmax_medium
    ELSE Pmax_minor

\* a penalty that squares the severity as it comes
ViolationPenalty_unclamped(v) == pmax_for(v.id) * (v.severity * v.severity)

\* what one violation adds to penalties: pmax_for(id) * sev * sev
ViolationPenalty(v) == pmax_for(v.id) * (ClampSeverity(v.severity) * ClampSeverity(v.severity))

\* sorted(violations, key=severity, reverse=True)[:10]: stable, descending
top_violations(vs) ==
    LET n == Len(vs)
        rank(i) == Cardinality({j \in 1..n : vs[j].severity > vs[i].severity
                                             \/ (vs[j].severity = vs[i].severity /\ j < i)}) + 1
        sorted == [k \in 1..n |-> vs[CHOOSE i \in 1..n : rank(i) = k]]
    IN  Prefix(sorted, 10)

\* evaluate_seed_run(seed, out_dir, defs): the SeedEval it returns, or that
\* it raised (an index into an empty series)
evaluate_seed_run_dir(seed, dir) ==
    LET avail == check_metric_availability(dir)
        ts == TimeseriesRows(dir)
        empty_ts == IF ts = <<>>
                    THEN <<[id |-> "MISSING_METRIC", severity |-> 100, hardfail |-> TRUE]>>
                    ELSE <<>>
        broken == IF /\ Has(dir, "run_summary.json")
                     /\ "invariants" \in dir.summary.keys
                     /\ ~dir.summary.invariants_ok
                  THEN <<[id |-> "BROKEN_ACCOUNTING", severity |-> 100, hardfail |-> TRUE]>>
                  ELSE <<>>
        extinction == ExtinctionFrom(ts, 1, 0)
        \* food[-n_var:], spoilage[-1] are read once len(food) >= n_var
        storage_raises == Len(ts) >= adequacy_var_window_N /\ ts = <<>>
        transport == IF ts # <<>> /\ dir.trade_sev > 0
                     THEN <<[id |-> "TRANSPORT_CHEAT", severity |-> dir.trade_sev,
                             hardfail |-> FALSE]>>
                     ELSE <<>>
        \* tech_win[-1] is read once len(extraction) >= m_win
        depletion_raises == Len(ts) >= depletion_monotonic_window_M /\ ts = <<>>
        violations == avail.violations \o empty_ts \o broken \o extinction \o transport
        penalties == SumSeq([i \in DOMAIN violations |-> ViolationPenalty(violations[i])])
        ck_scores == [i \in DOMAIN ts |-> CkScore]
        base_score_seed == IF ck_scores = <<>> THEN 0 ELSE SumSeq(ck_scores) \div Len(ck_scores)
    IN  IF storage_raises \/ depletion_raises THEN [seed |-> seed, raised |-> TRUE]
        ELSE [seed |-> seed, raised |-> FALSE,
              total_score_seed |-> 100 * base_score_seed * PenaltyUnit - penalties,
              base_score_seed |-> base_score_seed, penalties |-> penalties,
              hardfails |-> {violations[i].id : i \in {j \in DOMAIN violations :
                                                         violations[j].hardfail}},
              violations |-> violations, top_violations |-> top_violations(violations),
              metric_ok |-> avail.ok]

\* the directory after evaluate_seed_run wrote its artifacts: violations.json
\* and run_summary.json are replaced by the evaluator's own, run_meta.json
\* gets the version keys (and is created with them alone if it was absent)
EvalArtifactsWritten(dir, ev) ==
    [dir EXCEPT
        !.arts = dir.arts \cup {"violations.json", "run_summary.json", "run_meta.json"},
        !.violations_file = [by |-> "evaluator", violations |-> ev.violations],
        !.summary = [by |-> "evaluator", keys |-> EvalSummaryKeys,
                     total_score |-> ev.total_score_seed,
                     base_score_seed |-> ev.base_score_seed,
                     penalty_points |-> ev.penalties,
                     metric_availability |-> ev.metric_ok,
                     hardfails |-> ev.hardfails,
                     top_violations |-> ev.top_violations],
        !.meta_keys_ok = Has(dir, "run_meta.json") /\ dir.meta_keys_ok]

(***************************************************************************)
(* Function-level specifications: the functions of the tuner applied to    *)
(* inputs drawn from bounded sets, with the tuning loop at rest.           *)
(***************************************************************************)
LabRest ==
    /\ MainInit
    /\ ~run_cache_enabled

\* the run directories a simulator run may leave
MaxRows == 4
MaxEvaluations == 2

RECURSIVE PopSeqs(_)
PopSeqs(n) ==
    IF n = 0 THEN {<<>>}
    ELSE PopSeqs(n - 1) \cup {Append(q, x) : q \in {r \in PopSeqs(n - 1) : Len(r) = n - 1},
                                             x \in {0, extinction_pop_floor}}

LabRows ==
    {[i \in DOMAIN q |-> [year |-> (i - 1) * step, pop |-> q[i]]] :
        q \in PopSeqs(MaxRows), step \in {1, 2}}

SimulatorSummaries ==
    {[by |-> "simulator", keys |-> {"checkpoints"}, invariants_ok |-> TRUE]}
    \cup {[by |-> "simulator", keys |-> {"checkpoints", "invariants"}, invariants_ok |-> b] :
            b \in BOOLEAN}

LabRunDirs ==
    {[arts |-> a, rows |-> r, cols_ok |-> c, trade_sev |-> t, summary |-> sm,
      violations_file |-> [by |-> "simulator"], meta_keys_ok |-> mk,
      required_run_summary_keys |-> rk] :
        a \in SUBSET REQUIRED_RUN_ARTIFACTS, r \in LabRows, c \in BOOLEAN, t \in {0, 60},
        sm \in SimulatorSummaries, mk \in BOOLEAN, rk \in {{}, {"invariants"}}}

\* one directory per content: what an absent file would hold is left out
CanonicalDir(d) ==
    /\ ("timeseries.csv" \notin d.arts => d.rows = <<>>)
    /\ (d.rows = <<>> => d.cols_ok /\ d.trade_sev = 0)
    /\ ("run_summary.json" \notin d.arts => d.summary.keys = {"checkpoints"})
    /\ ("run_meta.json" \notin d.arts => ~d.meta_keys_ok)

\* evaluate_seed_run called on the directory, writing its artifacts or not
EvaluateSeedRun ==
    /\ run_dir # NoDir
    /\ Len(evals_done) < MaxEvaluations
    /\ \E write_eval_artifacts \in BOOLEAN :
          LET ev == evaluate_seed_run_dir(1, run_dir)
              after == IF write_eval_artifacts /\ ~ev.raised
                       THEN EvalArtifactsWritten(run_dir, ev)
                       ELSE run_dir
          IN  /\ run_dir' = after
              /\ evals_done' = Append(evals_done,
                                      [eval |-> ev, wrote |-> write_eval_artifacts,
                                       before |-> run_dir, after |-> after])
    /\ UNCHANGED <<mainVars, calc, pool>>

EvalInit ==
    /\ LabRest
    /\ run_dir \in {d \in LabRunDirs : CanonicalDir(d)}
    /\ evals_done = <<>>
    /\ calc = NoCalc
    /\ pool = NoPool

EvalNext ==
    \/ EvaluateSeedRun

EvalSpec == EvalInit /\ [][EvalNext]_vars

\* the series a SeedEval may retain under one key
LabSeries == {<<>>, <<0>>, <<100>>, <<104>>, <<100, 0>>, <<100, 104>>, <<100, NaN>>}

\* SeedEval.key_series: the population series and the event-rate series
\* (the three event rates move together here)
LabKeySeries ==
    {[k \in {"world_pop_total"} \cup EventRateKeys |->
        IF k = "world_pop_total" THEN p ELSE r] : p \in LabSeries, r \in LabSeries}

\* tolerance documents (defs["canary_eps"]): relative tolerances in percent
LabEpsMaps ==
    {[m \in {"world_pop_total"} |-> [mode |-> "relative", eps |-> 5]],
     [m \in {"world_pop_total"} |-> [mode |-> "absolute", eps |-> 0]],
     [m \in {"event_rates_per_century_per_billion"} |-> [mode |-> "absolute", eps |-> 4]],
     [m \in {"world_pop_total", "event_rates_per_century_per_billion"} |->
        [mode |-> IF m = "world_pop_total" THEN "absolute" ELSE "relative", eps |-> 0]],
     [m \in {"world_pop_growth_rate_annual"} |-> [mode |-> "absolute", eps |-> 4]]}

\* compare_metric_series applied to two evaluations
CompareSeries ==
    /\ calc = NoCalc
    /\ \E ka \in LabKeySeries, kb \in LabKeySeries, em \in LabEpsMaps :
          calc' = [op |-> "compare_metric_series", ka |-> ka, kb |-> kb, eps_map |-> em,
                   ok |-> compare_key_series(ka, kb, em)]
    /\ UNCHANGED <<mainVars, run_dir, evals_done, pool>>

\* run-cache stores, keys and simulator outputs of the seed requests tried
LabRequestKeys == {Key(1, tuning_seeds[i], inner_end_year, UseGpu) : i \in DOMAIN tuning_seeds}

LabOuts == {Out(2, "none", 0), Out(0, "missing_art", 0)}

LabCaches == {<<>>} \cup {(k :> Out(4, "none", 0)) : k \in LabRequestKeys}

\* one seed request whose simulator run, if any, exits with rc
RunOneRequest ==
    /\ calc = NoCalc
    /\ \E cacheOn \in BOOLEAN, cch \in LabCaches, k \in LabRequestKeys, out \in LabOuts,
          rc \in {0, 1} :
          calc' = [op |-> "run_one", cacheOn |-> cacheOn, cch |-> cch, k |-> k, out |-> out,
                   rc |-> rc, result |-> run_one_request(cacheOn, cch, k, out, rc)]
    /\ UNCHANGED <<mainVars, run_dir, evals_done, pool>>

\* violations as evaluate_seed_run builds them: the hardfail flag goes with
\* the id; severities beyond 0..100 are what a caller could hand in
LabViolations ==
    {[id |-> i, severity |-> sv, hardfail |-> i \in {"MISSING_METRIC", "BROKEN_ACCOUNTING",
                                                      "EXTINCTION_PERSISTENT"}] :
        i \in {"EXTINCTION_PERSISTENT", "MISSING_METRIC", "TRANSPORT_CHEAT",
               "DEPLETION_IGNORED", "UNLISTED"},
        sv \in {-50, 0, 50, 100, 150}}

\* the penalty of two violations
Penalty ==
    /\ calc = NoCalc
    /\ \E v \in LabViolations, w \in LabViolations :
          calc' = [op |-> "penalty", v |-> v, w |-> w,
                   pv |-> ViolationPenalty(v), pw |-> ViolationPenalty(w)]
    /\ UNCHANGED <<mainVars, run_dir, evals_done, pool>>

\* seed evaluations as the aggregator sees them, and lists of them
MaxAggregated == 3

LabEvals == {[seed |-> 1, score |-> x, viol |-> v, ser |-> 0] : x \in Scores, v \in {"none", "ext"}}

RECURSIVE SeqsUpTo(_, _)
SeqsUpTo(S, n) ==
    IF n = 0 THEN {<<>>}
    ELSE SeqsUpTo(S, n - 1)
         \cup {Append(q, x) : q \in {r \in SeqsUpTo(S, n - 1) : Len(r) = n - 1}, x \in S}

Permutations1(n) == {f \in [1..n -> 1..n] : \A i, j \in 1..n : f[i] = f[j] => i = j}

\* aggregate_objective on a list of evaluations and on a permutation of it
Aggregate ==
    /\ calc = NoCalc
    /\ \E evals \in SeqsUpTo(LabEvals, MaxAggregated) :
          \E f \in Permutations1(Len(evals)) :
             LET permuted == [i \in 1..Len(evals) |-> evals[f[i]]]
             IN  calc' = [op |-> "aggregate_objective", evals |-> evals, permuted |-> permuted,
                          a |-> aggregate_objective_dict(evals),
                          b |-> aggregate_objective_dict(permuted)]
    /\ UNCHANGED <<mainVars, run_dir, evals_done, pool>>

\* candidate score maps over the first n paired seeds, against an incumbent
\* that scored 0 on each
MaxPairedSeeds == 4

LabScoreMaps ==
    UNION {[1..n -> {[seed |-> 1, score |-> x, viol |-> "none", ser |-> 0] : x \in {0, 2}}] :
              n \in 1..MaxPairedSeeds}

ZeroScores(m) == [sd \in DOMAIN m |-> [seed |-> 1, score |-> 0, viol |-> "none", ser |-> 0]]

\* paired_delta_stats on two sets of paired seeds
Paired ==
    /\ calc = NoCalc
    /\ \E c1 \in LabScoreMaps, c2 \in LabScoreMaps :
          calc' = [op |-> "paired_delta_stats",
                   a |-> paired_delta_stats(c1, ZeroScores(c1), [i \in DOMAIN c1 |-> i]),
                   b |-> paired_delta_stats(c2, ZeroScores(c2), [i \in DOMAIN c2 |-> i])]
    /\ UNCHANGED <<mainVars, run_dir, evals_done, pool>>

\* the holdout verdict for a candidate and an incumbent evaluated on two
\* holdout seeds
LabHoldoutSeeds == <<3, 4>>

LabHoldoutEvals(outs) ==
    {<<evaluate_seed_run(LabHoldoutSeeds[1], a), evaluate_seed_run(LabHoldoutSeeds[2], b)>> :
        a \in outs, b \in outs}

HoldoutStage ==
    /\ calc = NoCalc
    /\ \E cand_hold \in LabHoldoutEvals({Out(0, "none", 0), Out(2, "none", 0), Out(4, "none", 0),
                                          Out(4, "ext", 0), Out(4, "broken_ext", 0)}),
          inc_hold \in LabHoldoutEvals({Out(0, "none", 0), Out(2, "none", 0)}) :
          calc' = [op |-> "holdout", cand_hold |-> cand_hold, inc_hold |-> inc_hold,
                   holdout_obj |-> aggregate_objective(cand_hold),
                   best_holdout_obj |-> aggregate_objective(inc_hold),
                   holdout_hardfails |-> HardfailIds(cand_hold),
                   lcb_ok |-> PairedLcbAtLeast(eval_map_by_seed(cand_hold),
                                               eval_map_by_seed(inc_hold), LabHoldoutSeeds,
                                               paired_min_holdout_lcb_delta),
                   holdout_ok |-> HoldoutOkFor(HardfailIds(cand_hold),
                                               aggregate_objective(cand_hold),
                                               eval_map_by_seed(cand_hold), LabHoldoutSeeds,
                                               aggregate_objective(inc_hold),
                                               eval_map_by_seed(inc_hold))]
    /\ UNCHANGED <<mainVars, run_dir, evals_done, pool>>

\* A cell of a metric column of timeseries.csv as csv.DictReader hands it
\* over: absent (the row is short), text that float() parses, a word that
\* it does not parse, or the empty text.
CsvCells ==
    {[kind |-> "absent"], [kind |-> "word"], [kind |-> "empty"]}
    \cup {[kind |-> "num", num |-> x] : x \in {0, 100}}

\* read_timeseries for one cell: 0.0 for an absent cell, the number for text
\* that float() parses, and otherwise the text itself
read_cell(c) ==
    IF c.kind = "absent" THEN [float |-> 0]
    ELSE IF c.kind = "num" THEN [float |-> c.num]
    ELSE [str |-> c.kind]

\* float(r.get(column, 0.0)) in evaluate_seed_run raises on text that is no
\* number
FloatRaises(v) == "str" \in DOMAIN v

\* read_timeseries on a metric column of one or two rows, and the series
\* evaluate_seed_run builds from it
ReadSeries ==
    /\ calc = NoCalc
    /\ \E cells \in SeqsUpTo(CsvCells, 2) :
          /\ cells # <<>>
          /\ LET values == [i \in DOMAIN cells |-> read_cell(cells[i])]
                 raised == \E i \in DOMAIN values : FloatRaises(values[i])
             IN  calc' = [op |-> "read_timeseries", cells |-> cells, values |-> values,
                          raised |-> raised,
                          series |-> IF raised THEN <<>>
                                     ELSE [i \in DOMAIN values |-> values[i].float]]
    /\ UNCHANGED <<mainVars, run_dir, evals_done, pool>>

\* Parameter definitions, numbers counted in halves: min <= max, and an
\* "int" parameter declares whole numbers.  The current value need not lie
\* within the bounds nor be whole.
LabPdefs ==
    {d \in [type : {"int", "float"}, min : -2..2, max : -2..4, recommended_step : 0..4] :
        /\ d.min <= d.max
        /\ (d.type = "int" =>
              /\ IntOf(d.min) = d.min
              /\ IntOf(d.max) = d.max
              /\ IntOf(d.recommended_step) = d.recommended_step)}

LabParamValues == -5..7

\* The last two statements of propose_exploit_candidate and of
\* propose_explore_candidate: the lane has settled on a direction and takes
\* one step of the parameter.
ProposeStep ==
    /\ calc = NoCalc
    /\ \E lane \in {"exploit", "explore"}, pdef \in LabPdefs, old_val \in LabParamValues,
          direction \in {1, -1} :
          calc' = [op |-> "apply_step", lane |-> lane, pdef |-> pdef, old_val |-> old_val,
                   direction |-> direction,
                   new_val |-> apply_step_pdef(old_val, pdef, direction)]
    /\ UNCHANGED <<mainVars, run_dir, evals_done, pool>>

\* What run_meta.json may hold under one key, seen from the request: no
\* such key, null, a string that is no number, a string of the digits of
\* the requested number, the requested value, another value of the right
\* type.
MetaFieldVals == {"missing", "null", "text", "digits", "match", "other"}

\* int(meta.get(key, default)) == int(requested): "eq", "ne", or "raise"
\* when int() is handed None or a string that is no number
IntFieldCheck(f, default, requested) ==
    IF f = "missing" THEN (IF default = requested THEN "eq" ELSE "ne")
    ELSE IF f \in {"null", "text"} THEN "raise"
    ELSE IF f \in {"digits", "match"} THEN "eq"
    ELSE "ne"

\* str(meta.get(key, "")) compared with the requested string: str() takes
\* any value, and only the requested string itself compares equal
StrFieldCheck(f) == IF f = "match" THEN "eq" ELSE "ne"

\* the and-chain of comparisons, left to right, stopping at the first that
\* is false or raises
RECURSIVE AndChain(_)
AndChain(checks) ==
    IF checks = <<>> THEN "True"
    ELSE IF Head(checks) = "eq" THEN AndChain(Tail(checks))
    ELSE IF Head(checks) = "ne" THEN "False"
    ELSE "raise"

\* run_meta_matches: file is what run_meta.json is (absent, unparsable, a
\* JSON value that is no object, or an object with the fields given)
run_meta_matches(file, fields, seed, start, end) ==
    IF file \in {"absent", "unparsable"} THEN "False"
    ELSE IF file = "not_object" THEN "raise"
    ELSE AndChain(<<IntFieldCheck(fields.seed, -1, seed),
                    StrFieldCheck(fields.config_hash),
                    IntFieldCheck(fields.start_year, 0, start),
                    IntFieldCheck(fields.end_year, 0, end),
                    StrFieldCheck(fields.backend)>>)

\* the reuse check on one metadata file
RunMetaMatches ==
    /\ calc = NoCalc
    /\ \E file \in {"absent", "unparsable", "not_object", "object"},
          fields \in [seed : MetaFieldVals, config_hash : MetaFieldVals,
                      start_year : MetaFieldVals, end_year : MetaFieldVals,
                      backend : MetaFieldVals],
          start \in {start_year, -5000} :
          /\ (file # "object" => \A k \in DOMAIN fields : fields[k] = "missing")
          /\ calc' = [op |-> "run_meta_matches", file |-> file, fields |-> fields,
                      start |-> start,
                      result |-> run_meta_matches(file, fields, tuning_seeds[1], start,
                                                  inner_end_year)]
    /\ UNCHANGED <<mainVars, run_dir, evals_done, pool>>

\* what run_one finds in a directory: all required artifacts present and
\* non-empty, run_meta.json matching the request
LabDirStates == [complete : BOOLEAN, meta_ok : BOOLEAN]

\* run_one(seed) with its working directory sd and its cache entry cache_sd
\* as found; rc is the exit code of the simulator if it is executed,
\* ev_raised whether evaluate_seed_run raises on the directory evaluated.
\* Result: the directory the run is taken from, whether the simulator was
\* executed, whether the request ended in an error, whether the artifacts
\* were copied to the cache entry, the directory evaluated and whether the
\* evaluation wrote its artifacts into the cache entry.
run_one_dirs(reuse_existing, cache_enabled, materialize_from_cache, sd, cache_sd, rc, write_eval_artifacts, ev_raised) ==
    LET use_sd == reuse_existing /\ sd.complete /\ sd.meta_ok
        used_cache == ~use_sd /\ cache_enabled /\ cache_sd.complete /\ cache_sd.meta_ok
        exec == ~use_sd /\ ~used_cache
        raised == (exec /\ rc # 0) \/ ((~exec \/ rc = 0) /\ ev_raised)
        run_dir_for_eval == IF used_cache /\ ~materialize_from_cache THEN "cache_sd" ELSE "sd"
    IN  [source |-> IF use_sd THEN "sd" ELSE IF used_cache THEN "cache_sd" ELSE "run_cli",
         executed |-> exec,
         raised |-> raised,
         cache_copied |-> exec /\ rc = 0 /\ cache_enabled,
         run_dir_for_eval |-> run_dir_for_eval,
         cache_written_by_eval |->
            /\ run_dir_for_eval = "cache_sd"
            /\ write_eval_artifacts
            /\ ~ev_raised]

\* one seed request over the states of its two directories
RunOneDirs ==
    /\ calc = NoCalc
    /\ \E reuse_existing \in BOOLEAN, cache_enabled \in BOOLEAN,
          materialize_from_cache \in BOOLEAN, sd \in LabDirStates, cache_sd \in LabDirStates,
          rc \in {0, 1}, write_eval_artifacts \in BOOLEAN, ev_raised \in BOOLEAN :
          calc' = [op |-> "run_one_dirs", reuse_existing |-> reuse_existing,
                   cache_enabled |-> cache_enabled,
                   materialize_from_cache |-> materialize_from_cache,
                   sd |-> sd, cache_sd |-> cache_sd, rc |-> rc,
                   write_eval_artifacts |-> write_eval_artifacts,
                   result |-> run_one_dirs(reuse_existing, cache_enabled,
                                           materialize_from_cache, sd, cache_sd, rc,
                                           write_eval_artifacts, ev_raised)]
    /\ UNCHANGED <<mainVars, run_dir, evals_done, pool>>

\* the tuning seeds of the racing-stage computation
LabTuningSeeds == <<1, 2, 3>>

\* the stages of the racing loop over LabTuningSeeds
LabStageCounts == normalized_stage_counts(<<1, 2>>, Len(LabTuningSeeds))

\* per-seed evaluations of the seeds given, one score each
LabEvalMaps(seeds) ==
    {eval_map_by_seed([i \in 1..Len(seeds) |->
                          evaluate_seed_run(seeds[i], Out(f[i], "none", 0))]) :
        f \in [1..Len(seeds) -> Scores]}

\* One pass of the racing loop on its own: the comparison of the candidate
\* with the incumbent over the stage's seeds and the early-reject decision.
RacingStage ==
    /\ calc = NoCalc
    /\ \E k \in 1..Len(LabStageCounts), racing \in BOOLEAN, paired_on \in BOOLEAN :
          LET stage_n == LabStageCounts[k]
              subset == Prefix(LabTuningSeeds, stage_n)
          IN  \E m \in LabEvalMaps(subset), inc \in LabEvalMaps(LabTuningSeeds) :
                LET stage_delta == aggregate_objective(EvalsOf(m, subset))
                                     - aggregate_objective(EvalsOf(inc, subset))
                IN  calc' = [op |-> "race", stage |-> k, stage_n |-> stage_n,
                             racing |-> racing, paired_on |-> paired_on,
                             cand_by_seed |-> m, inc_by_seed |-> inc,
                             stage_delta |-> stage_delta,
                             paired_n |-> PairedN(m, inc, subset),
                             early_reject |->
                                EarlyRejectFor(racing, paired_on, stage_n,
                                               Len(LabTuningSeeds), stage_delta,
                                               m, inc, subset)]
    /\ UNCHANGED <<mainVars, run_dir, evals_done, pool>>

CalcInit ==
    /\ LabRest
    /\ run_dir = NoDir
    /\ evals_done = <<>>
    /\ calc = NoCalc
    /\ pool = NoPool

CalcNext ==
    \/ CompareSeries
    \/ RunOneRequest
    \/ Penalty
    \/ Aggregate
    \/ Paired
    \/ HoldoutStage
    \/ RacingStage
    \/ RunOneDirs
    \/ RunMetaMatches
    \/ ProposeStep
    \/ ReadSeries

CalcSpec == CalcInit /\ [][CalcNext]_vars

(***************************************************************************)
(* run_seed_set: the workers of one call.                                  *)
(***************************************************************************)
MaxPoolSeeds == 3
MaxJobs == 3

\* the seed lists and job limits a call is made with; main() hands in
\* seed_jobs, which is at least 1
LabSeedLists == SeqsUpTo({1, 2, 3}, MaxPoolSeeds)

\* a pool as large as the seed list
NJobs_all_seeds(jobs, seeds) == Max2(1, Len(seeds))

\* n_jobs
NJobs(jobs, seeds) == Max2(1, Min2(jobs, Len(seeds)))

\* the SeedEval of the worker for seeds[i], stamped with the order in which
\* the workers finished
PoolEval(i) == [seed |-> pool.seeds[i], stamp |-> pool.clock + 1]

\* workers that all write into the output directory of the call
WorkerPaths_one_dir(i) == {<<"out_dir">>}

\* the paths the worker for seeds[i] may write: its working directory sd
\* and its cache entry cache_sd, both named after the seed (configuration
\* hash, years and backend are those of the call)
WorkerPaths(i) == {<<"out_dir", "seed", pool.seeds[i]>>, <<"cache_root", "key", pool.seeds[i]>>}

\* The call: n_jobs = 1 takes the sequential loop, otherwise the first
\* n_jobs seeds are submitted to the pool.
PoolCall ==
    /\ pool = NoPool
    /\ \E seeds \in LabSeedLists, jobs \in 1..MaxJobs :
          LET n == NJobs(jobs, seeds)
              first == IF n = 1 THEN {} ELSE 1..Min2(n, Len(seeds))
          IN  pool' = [phase |-> IF n = 1 THEN "sequential" ELSE "pool",
                       seeds |-> seeds, jobs |-> jobs, n_jobs |-> n,
                       next |-> Cardinality(first) + 1,
                       active |-> first, running |-> first,
                       results |-> <<>>, by_seed |-> <<>>, out |-> <<>>, clock |-> 0]
    /\ UNCHANGED <<mainVars, run_dir, evals_done, calc>>

\* sequential loop: run_one is entered for the next seed
SeqStart ==
    /\ pool.phase = "sequential"
    /\ pool.running = {}
    /\ pool.next <= Len(pool.seeds)
    /\ pool' = [pool EXCEPT !.running = {pool.next}]
    /\ UNCHANGED <<mainVars, run_dir, evals_done, calc>>

\* sequential loop: run_one returns and its result is appended
SeqDone ==
    /\ pool.phase = "sequential"
    /\ \E i \in pool.running :
          pool' = [pool EXCEPT !.running = {},
                               !.results = (i :> PoolEval(i)) @@ @,
                               !.out = Append(@, PoolEval(i)),
                               !.next = @ + 1,
                               !.clock = @ + 1]
    /\ UNCHANGED <<mainVars, run_dir, evals_done, calc>>

\* sequential loop: the list is through and returned
SeqReturn ==
    /\ pool.phase = "sequential"
    /\ pool.running = {}
    /\ pool.next > Len(pool.seeds)
    /\ pool' = [pool EXCEPT !.phase = "returned"]
    /\ UNCHANGED <<mainVars, run_dir, evals_done, calc>>

\* a worker of the pool finishes run_one; its future is done
WorkerFinish ==
    /\ pool.phase = "pool"
    /\ \E i \in pool.running :
          pool' = [pool EXCEPT !.running = @ \ {i},
                               !.results = (i :> PoolEval(i)) @@ @,
                               !.clock = @ + 1]
    /\ UNCHANGED <<mainVars, run_dir, evals_done, calc>>

\* the caller takes one finished future from as_completed, stores its
\* result under the seed and submits the next seed, if any
Collect ==
    /\ pool.phase = "pool"
    /\ \E i \in pool.active \ pool.running :
          LET more == IF pool.next <= Len(pool.seeds) THEN {pool.next} ELSE {}
          IN  pool' = [pool EXCEPT !.active = (@ \ {i}) \cup more,
                                   !.running = @ \cup more,
                                   !.by_seed = (pool.seeds[i] :> pool.results[i]) @@ @,
                                   !.next = @ + Cardinality(more)]
    /\ UNCHANGED <<mainVars, run_dir, evals_done, calc>>

\* no future is left: the list is built in the order of the seeds
PoolReturn ==
    /\ pool.phase = "pool"
    /\ pool.active = {}
    /\ pool' = [pool EXCEPT !.phase = "returned",
                             !.out = [k \in 1..Len(pool.seeds) |-> pool.by_seed[pool.seeds[k]]]]
    /\ UNCHANGED <<mainVars, run_dir, evals_done, calc>>

PoolInit ==
    /\ LabRest
    /\ run_dir = NoDir
    /\ evals_done = <<>>
    /\ calc = NoCalc
    /\ pool = NoPool

PoolNext ==
    \/ PoolCall
    \/ SeqStart
    \/ SeqDone
    \/ SeqReturn
    \/ WorkerFinish
    \/ Collect
    \/ PoolReturn

PoolSpec == PoolInit /\ [][PoolNext]_vars

(***************************************************************************)
(* Properties of the acceptance gates.                                     *)
(***************************************************************************)
\* the position where an iteration's verdict is about to be taken
AtVerdict == pc = "decide"

\* C1: a candidate is accepted only if, in the same iteration, the canary
\* check and the backend-parity check were both executed for it and both
\* passed (their compared series within tolerance).
C1_AcceptedOnlyAfterCanaryAndParity ==
    (AtVerdict /\ Accepted(cand)) =>
        /\ cand.canary_detail # <<>>
        /\ cand.parity_detail # <<>>
        /\ cand.canary_detail[1].max_error <= canary_eps
        /\ cand.parity_detail[1].max_error <= parity_eps

C1_Witness ==
    /\ AtVerdict
    /\ Accepted(cand)
    /\ cand.canary_execs = 2
    /\ cand.parity_execs = 2

\* C2: best_obj never decreases after the baseline set it; it changes only
\* in an accepted iteration, and an accepted iteration leaves it at least
\* min_delta above its previous value.
C2_BestObjMonotone ==
    [][pc # "start" =>
          /\ best_obj' >= best_obj
          /\ (best_obj' # best_obj => (AtVerdict /\ Accepted(cand)))
          /\ ((AtVerdict /\ Accepted(cand) /\ pc' # pc) =>
                 best_obj' >= best_obj + min_delta)]_vars

C2_Witness ==
    /\ pc = "loop"
    /\ iteration_json.exists
    /\ iteration_json.accepted
    /\ best_obj = target_objective

\* C3 as stated: a candidate is never accepted if any seed evaluation made
\* for it in the iteration (inner tuning, medium tuning, medium holdout,
\* long tuning, long holdout) carries a hard fail.
C3_NoHardFailAccepted ==
    (AtVerdict /\ Accepted(cand)) =>
        /\ cand.tune_hardfails = {}
        /\ cand.medium_hardfails = {}
        /\ cand.medium_holdout_hardfails = {}
        /\ cand.long_hardfails = {}
        /\ cand.holdout_hardfails = {}

\* C3 amended: a candidate is never accepted if an inner, medium or long
\* tuning evaluation carries a hard fail, or if the medium holdout or the
\* long holdout evaluations carry more than holdout_hardfail_max distinct
\* hard-fail ids.
C3_HardFailsWithinCap ==
    (AtVerdict /\ Accepted(cand)) =>
        /\ cand.tune_hardfails = {}
        /\ cand.medium_hardfails = {}
        /\ cand.long_hardfails = {}
        /\ Cardinality(cand.medium_holdout_hardfails) <= holdout_hardfail_max
        /\ Cardinality(cand.holdout_hardfails) <= holdout_hardfail_max

C3_Witness ==
    /\ AtVerdict
    /\ Accepted(cand)
    /\ cand.holdout_hardfails = {"EXTINCTION_PERSISTENT"}

\* C4: a candidate is accepted only if the long-horizon tuning run and the
\* long-horizon holdout run were both executed for it in the iteration (their
\* evaluations exist for every seed); a skipped stage never counts as passed.
C4_AcceptedOnlyAfterLongAndHoldout ==
    (AtVerdict /\ Accepted(cand)) =>
        /\ Len(cand.cand_long) = Len(tuning_seeds)
        /\ cand.holdout_ran
        /\ Len(cand.cand_hold) = Len(holdout_seeds)

C4_Witness ==
    /\ AtVerdict
    /\ Accepted(cand)
    /\ cand.holdout_ran
    /\ ~cand.medium_ran

\* C5: at every iteration boundary every recorded best objective (inner,
\* medium, long and their holdout counterparts) and every best per-seed
\* evaluation set was measured on the currently persisted best configuration.
C5_BestsMeasuredOnPersistedBest ==
    pc = "loop" => \A k \in MeasuredKinds : measured_on[k] = best_cfg_file.value

\* C6: whatever an iteration does, unless it accepts its candidate, leaves
\* the best state as it was: the best configuration in memory and on disk,
\* the best objective of every horizon, the best per-seed maps and the best
\* violation signature.
C6_RejectedLeavesBestState ==
    [][(pc # "start" /\ ~(AtVerdict /\ Accepted(cand))) =>
          UNCHANGED <<best_cfg, best_cfg_file, best_inner_obj, best_inner_holdout_obj,
                      best_medium_obj, best_medium_holdout_obj, best_obj,
                      best_holdout_obj, best_inner_by_seed, best_long_by_seed,
                      best_holdout_by_seed, best_top3>>]_vars

C6_Witness ==
    /\ pc = "loop"
    /\ iteration_json.exists
    /\ ~iteration_json.accepted
    /\ prev_top3_inner # best_top3

C8_FiveFailuresStopSafety ==
    (pc = "done" /\ check_fail_run >= SafetyFailLimit) =>
        /\ final_report.stop_condition = "SAFETY"
        /\ "safety_stop_minimal_fix.json" \in tickets

\* C8 amended: five consecutive iterations whose canary or parity check
\* failed end the loop; the final report gives SAFETY, with
\* safety_stop_minimal_fix.json written, unless a stop check that comes
\* first fired in the fifth iteration (the stop flag, convergence, the
\* realism target, the structural signal).
C8_FiveFailuresEndLoop ==
    check_fail_run >= SafetyFailLimit =>
        /\ pc \in {"final", "done"}
        /\ stop_reason \in {"MANUAL_STOP", "CONVERGENCE", "TARGET_REALISM",
                            "STRUCTURAL_CHANGE_SIGNAL", "SAFETY"}
        /\ (stop_reason = "MANUAL_STOP" => stop_flag_exists)
        /\ (~stop_flag_exists /\ accepted_iters < convergence_iterations
            /\ best_obj < target_objective
            /\ plateau_same_top3 < plateau_iterations_structural) => stop_reason = "SAFETY"
        /\ (pc = "done" =>
               /\ final_report.stop_condition = stop_reason
               /\ ("safety_stop_minimal_fix.json" \in tickets <=> stop_reason = "SAFETY"))

C8_Witness ==
    /\ pc = "done"
    /\ check_fail_run >= SafetyFailLimit
    /\ final_report.stop_condition = "SAFETY"
    /\ "safety_stop_minimal_fix.json" \in tickets

C10_CanaryExecutesTwice ==
    (pc = "parity") => cand.canary_execs = 2

(***************************************************************************)
(* Properties of the comparison, the executor and the evaluator.           *)
(***************************************************************************)
\* the series compare_metric_series reads for a metric of the tolerance map
SeriesRead(ks, metric) ==
    IF metric = "event_rates_per_century_per_billion"
    THEN {SeriesGet(ks, k) : k \in EventRateKeys}
    ELSE {SeriesGet(ks, metric)}

C12_EveryEndLeavesBestAndReport ==
    (pc \in {"done", "crashed"} /\ it >= 1) =>
        /\ best_cfg_file.exists
        /\ best_cfg_file.value = best_cfg
        /\ final_report.exists

\* C13: a simulator run that exits non-zero is not retried: the simulator
\* was invoked exactly once for the request, the request ended in the error
\* instead of an evaluation, and the run cache is as it was before (nothing
\* stored under the key of the failed run).
C13_FailedRunNotRetriedNotStored ==
    (calc.op = "run_one" /\ calc.rc # 0 /\ calc.result.invoked > 0) =>
        /\ calc.result.invoked = 1
        /\ calc.result.raised
        /\ "art" \notin DOMAIN calc.result
        /\ calc.result.cache = calc.cch

C13_Witness ==
    /\ calc.op = "run_one"
    /\ calc.rc # 0
    /\ calc.cacheOn
    /\ calc.cch # <<>>
    /\ calc.k \notin DOMAIN calc.cch
    /\ calc.result.raised

C15_EvaluationIdempotent ==
    (Len(evals_done) = 2 /\ evals_done[1].wrote /\ evals_done[2].wrote) =>
        /\ evals_done[2].eval = evals_done[1].eval
        /\ evals_done[2].after.summary = evals_done[1].after.summary
        /\ evals_done[2].after.violations_file = evals_done[1].after.violations_file

\* the rows i..j are an uninterrupted below-floor span longer than the grace
BelowSpan(rows, i, j) ==
    /\ \A k \in i..j : rows[k].pop < extinction_pop_floor
    /\ rows[j].year - rows[i].year > extinction_grace_years

ExtinctionCount(ev) ==
    Cardinality({k \in DOMAIN ev.violations : ev.violations[k].id = "EXTINCTION_PERSISTENT"})

\* C17: a run whose population stays below the extinction floor for longer
\* than the grace period yields exactly one EXTINCTION_PERSISTENT violation,
\* of severity 100 and hardfail set; a run in which no uninterrupted
\* below-floor span exceeds the grace period yields none.
C17_ExtinctionPersistentOnce ==
    \A n \in DOMAIN evals_done :
        LET ev == evals_done[n].eval
            rows == TimeseriesRows(evals_done[n].before)
            persistent == \E i \in DOMAIN rows : \E j \in i..Len(rows) : BelowSpan(rows, i, j)
        IN  ~ev.raised =>
               /\ ExtinctionCount(ev) = (IF persistent THEN 1 ELSE 0)
               /\ \A k \in DOMAIN ev.violations :
                     ev.violations[k].id = "EXTINCTION_PERSISTENT" =>
                        ev.violations[k].severity = 100 /\ ev.violations[k].hardfail

C17_Witness ==
    /\ Len(evals_done) = 1
    /\ ExtinctionCount(evals_done[1].eval) = 1
    /\ Len(evals_done[1].before.rows) = MaxRows
    /\ evals_done[1].before.rows[1].pop < extinction_pop_floor
    /\ evals_done[1].before.rows[2].pop >= extinction_pop_floor
    /\ "timeseries.csv" \in evals_done[1].before.arts

\* C16: the penalty a violation contributes is non-decreasing in its
\* severity, and at equal severity a violation flagged as a hard fail
\* contributes at least as much as an anti-loophole violation.
C16_PenaltyMonotone ==
    calc.op = "penalty" =>
        /\ (calc.v.id = calc.w.id /\ calc.v.severity <= calc.w.severity) => calc.pv <= calc.pw
        /\ (calc.v.hardfail /\ calc.w.id \in anti_ids /\ calc.v.severity = calc.w.severity)
              => calc.pv >= calc.pw

C16_Witness ==
    /\ calc.op = "penalty"
    /\ calc.v.hardfail
    /\ calc.w.id \in anti_ids
    /\ calc.v.severity = 50
    /\ calc.w.severity = 50
    /\ calc.pv > calc.pw

\* C18: aggregate_objective returns the same median, standard deviation,
\* hard-fail rate, penalties and objective for every permutation of the same
\* list of seed evaluations.
C18_AggregatePermutationInvariant ==
    calc.op = "aggregate_objective" => calc.a = calc.b

C18_Witness ==
    /\ calc.op = "aggregate_objective"
    /\ Len(calc.evals) = MaxAggregated
    /\ calc.permuted # calc.evals
    /\ calc.evals[2].score < calc.evals[1].score
    /\ calc.a.hardfail_penalty > 0
    /\ calc.a = calc.b

\* C19: for a fixed variance of the per-seed differences and a fixed z, the
\* width ucb - lcb = 2 * z * stderr of the paired interval never grows when
\* the number of paired seeds grows, for every pair of counts n < m from
\* n = 1 on (the widths are compared by their squares over the common z).
C19_WidthShrinksWithCount ==
    (/\ calc.op = "paired_delta_stats"
     /\ 1 <= calc.a.n
     /\ calc.a.n < calc.b.n
     /\ calc.a.var.num * calc.b.var.den = calc.b.var.num * calc.a.var.den) =>
        /\ calc.a.z = calc.b.z
        /\ calc.a.z[1] >= 0
        /\ calc.b.stderr_sq.num * calc.a.stderr_sq.den
              <= calc.a.stderr_sq.num * calc.b.stderr_sq.den

C19_Witness ==
    /\ calc.op = "paired_delta_stats"
    /\ calc.a.n = 2
    /\ calc.b.n = MaxPairedSeeds
    /\ calc.a.var.num > 0
    /\ calc.a.var.num * calc.b.var.den = calc.b.var.num * calc.a.var.den
    /\ calc.b.stderr_sq.num * calc.a.stderr_sq.den < calc.a.stderr_sq.num * calc.b.stderr_sq.den

\* the number of tuning seeds the racing loop evaluated for the candidate
RacedSeeds == Cardinality(DOMAIN cand.cand_inner_by_seed)

\* C20: with one stage sequence, a candidate that is rejected was evaluated
\* on at most the seeds of the last stage and a candidate that is accepted
\* on exactly those, so that racing never evaluates more tuning seeds for a
\* rejected candidate than for an accepted one.
C20_RejectedRacesNoMoreSeeds ==
    AtVerdict =>
        /\ RacedSeeds <= stage_counts[Len(stage_counts)]
        /\ Accepted(cand) => RacedSeeds = stage_counts[Len(stage_counts)]

C20_Witness ==
    /\ AtVerdict
    /\ ~Accepted(cand)
    /\ cand.early_reject
    /\ RacedSeeds < stage_counts[Len(stage_counts)]

(***************************************************************************)
(* Properties of the stop flag, the live configuration and the stop        *)
(* conditions.                                                             *)
(***************************************************************************)
\* C21 as stated: once the stop flag exists no further iteration starts and
\* no further simulator run is launched, the stop reason reported is
\* MANUAL_STOP, and an iteration in progress still writes its iteration
\* record and persists an accepted best configuration.
C21_FlagEndsIterationsAndRuns ==
    [][stop_flag_exists =>
          /\ it' = it
          /\ ~launched_after_flag'
          /\ (pc' = "done" => final_report'.stop_condition = "MANUAL_STOP")
          /\ (AtVerdict =>
                 /\ iteration_json' = [exists |-> TRUE, iteration |-> it,
                                       accepted |-> Accepted(cand)]
                 /\ (Accepted(cand) => best_cfg_file' = DumpedFile(cand.selected_cfg)))]_vars

\* C21 amended: the flag is read at the top of an iteration and right after
\* the iteration record is written.  When it exists at one of these reads
\* the loop ends there with stop reason MANUAL_STOP; no iteration starts
\* while it exists and no simulator run is launched after the read.  The
\* iteration in progress when the flag appeared completes: its record is
\* written and an accepted candidate is persisted before the loop stops.
\* MANUAL_STOP is reported only when the flag exists.
C21_FlagReadAtIterationBoundaries ==
    [][/\ (stop_flag_exists => it' = it)
       /\ ((stop_flag_exists /\ pc = "loop" /\ it < MaxIterations) =>
              (pc' = "final" /\ stop_reason' = "MANUAL_STOP"))
       /\ ((stop_flag_exists /\ AtVerdict) =>
              /\ pc' = "final"
              /\ stop_reason' = "MANUAL_STOP"
              /\ iteration_json' = [exists |-> TRUE, iteration |-> it,
                                    accepted |-> Accepted(cand)]
              /\ (Accepted(cand) => best_cfg_file' = DumpedFile(cand.selected_cfg)))
       /\ (stop_reason = "MANUAL_STOP" =>
              /\ pc \in {"final", "done"}
              /\ UNCHANGED <<it, stop_reason, cache, executed, launched_after_flag>>)
       /\ (stop_reason' = "MANUAL_STOP" => stop_flag_exists)
       /\ ((pc' = "done" /\ stop_reason = "MANUAL_STOP") =>
              final_report'.stop_condition = "MANUAL_STOP")]_vars

C21_Witness ==
    /\ pc = "done"
    /\ final_report.stop_condition = "MANUAL_STOP"
    /\ launched_after_flag
    /\ iteration_json.exists
    /\ iteration_json.iteration = it
    /\ iteration_json.accepted
    /\ best_cfg_file.value = best_cfg
    /\ best_cfg # ParamInit

\* C22: with --no-write-live-config the live configuration file is at the
\* end of the run what it was at its start; without it the live
\* configuration at the end of the run is that of best_sim_config.toml.
C22_LiveConfigAtEnd ==
    pc \in {"done", "crashed"} =>
        IF no_write_live_config
        THEN live_cfg_file = [exists |-> TRUE, value |-> ParamInit, dumped |-> FALSE]
        ELSE live_cfg_file.value = best_cfg_file.value

\* the reasons a final report can give
StopReasons ==
    {"MANUAL_STOP", "CONVERGENCE", "TARGET_REALISM", "STRUCTURAL_CHANGE_SIGNAL", "SAFETY",
     "MAX_ITERATIONS"}

\* C23 as stated: after each iteration the stop conditions are evaluated in
\* the order CONVERGENCE, TARGET_REALISM, STRUCTURAL_CHANGE_SIGNAL, SAFETY
\* and the first that holds becomes the stop reason; when none ever holds
\* the final report gives MAX_ITERATIONS; the report gives one reason.
C23_FirstOfFourElseMaxIterations ==
    [][/\ ((AtVerdict /\ pc' # pc) =>
              /\ stop_reason' = StopCheck(cand, FALSE, accepted_iters', accepted_since_improve',
                                          best_top3', best_obj', plateau_same_top3',
                                          consecutive_gate_fail')
              /\ pc' = IF stop_reason' # "" THEN "final" ELSE "loop")
       /\ (pc' = "done" =>
              /\ final_report'.stop_condition \in StopReasons \ {"MANUAL_STOP"}
              /\ (final_report'.stop_condition = "MAX_ITERATIONS" <=> stop_reason = ""))]_vars

\* C23 amended: after each iteration the stop flag is looked at first and
\* then the four conditions in the order CONVERGENCE, TARGET_REALISM,
\* STRUCTURAL_CHANGE_SIGNAL, SAFETY, on the counters and best values as the
\* iteration left them; the first that holds becomes the stop reason and
\* ends the loop, MANUAL_STOP coming before all four.  A loop that no
\* check ended ran MaxIterations iterations and its report gives
\* MAX_ITERATIONS; the report gives exactly one of the six reasons.
C23_FlagThenFirstOfFour ==
    [][/\ ((AtVerdict /\ pc' # pc) =>
              LET convergence ==
                      /\ accepted_iters' >= convergence_iterations
                      /\ accepted_since_improve' >= convergence_iterations
                      /\ best_top3' = cand.cand_top3
                  target == best_obj' >= target_objective /\ ~MajorLeft(cand)
                  structural == plateau_same_top3' >= plateau_iterations_structural
                  safety == consecutive_gate_fail' >= SafetyFailLimit
              IN  /\ (stop_reason' = "MANUAL_STOP" <=> stop_flag_exists)
                  /\ (stop_reason' = "CONVERGENCE" <=> (~stop_flag_exists /\ convergence))
                  /\ (stop_reason' = "TARGET_REALISM" <=>
                         (~stop_flag_exists /\ ~convergence /\ target))
                  /\ (stop_reason' = "STRUCTURAL_CHANGE_SIGNAL" <=>
                         (~stop_flag_exists /\ ~convergence /\ ~target /\ structural))
                  /\ (stop_reason' = "SAFETY" <=>
                         (/\ ~stop_flag_exists /\ ~convergence /\ ~target
                          /\ ~structural /\ safety))
                  /\ (stop_reason' = "" <=>
                         (/\ ~stop_flag_exists /\ ~convergence /\ ~target
                          /\ ~structural /\ ~safety))
                  /\ pc' = IF stop_reason' = "" THEN "loop" ELSE "final")
       /\ ((pc = "loop" /\ pc' = "final" /\ stop_reason' = "") => it = MaxIterations)
       /\ (pc' = "done" =>
              /\ final_report'.stop_condition \in StopReasons
              /\ (final_report'.stop_condition = "MAX_ITERATIONS" <=> stop_reason = "")
              /\ (stop_reason # "" => final_report'.stop_condition = stop_reason))]_vars

C23_Witness ==
    /\ pc = "done"
    /\ final_report.stop_condition = "STRUCTURAL_CHANGE_SIGNAL"
    /\ consecutive_gate_fail >= SafetyFailLimit
    /\ ~stop_flag_exists

\* C24: the loop stops with TARGET_REALISM only when the best objective is
\* at least the target and no evaluation of the best configuration (its
\* long-horizon tuning and holdout evaluations) carries a violation of
\* severity at or above the major-violation threshold.
C24_TargetOnlyWithoutMajorInBest ==
    stop_reason = "TARGET_REALISM" =>
        /\ best_obj >= target_objective
        /\ ~HasMajor(EvalsOf(best_long_by_seed, tuning_seeds))
        /\ ~HasMajor(EvalsOf(best_holdout_by_seed, holdout_seeds))

(***************************************************************************)
(* Properties of the curriculum stages.                                    *)
(***************************************************************************)
\* the candidate is past the inner race, the medium check, the long stage
PastInner == pc \in {"canary", "parity", "medium", "long", "holdout"}

PastMedium == pc \in {"long", "holdout"} /\ cand.medium_ran

PastLong == pc = "holdout"

\* the paired lower bounds of the long stage and of the holdout stage
LongLcbOk ==
    ~paired_enabled
    \/ PairedLcbAtLeast(eval_map_by_seed(cand.cand_long), best_long_by_seed, tuning_seeds,
                        paired_min_long_lcb_delta)

HoldoutLcbOk ==
    ~paired_enabled
    \/ PairedLcbAtLeast(eval_map_by_seed(cand.cand_hold), best_holdout_by_seed, holdout_seeds,
                        paired_min_holdout_lcb_delta)

\* C25 as stated: a candidate advances from a stage to the next only if the
\* stage's evaluations have zero hard fails, its raw objective delta
\* against the incumbent clears its gate and its paired lower bound clears
\* its minimum.
C25_AdvanceOnlyWithZeroHardFails ==
    /\ PastInner =>
          /\ cand.tune_hardfails = {}
          /\ cand.inner_delta >= min_delta
          /\ cand.inner_lcb_ok
    /\ PastMedium =>
          /\ cand.medium_hardfails = {} /\ cand.medium_holdout_hardfails = {}
          /\ cand.medium_holdout_obj >= best_medium_holdout_obj + holdout_delta_req
    /\ PastLong =>
          /\ cand.long_hardfails = {}
          /\ cand.objective_delta >= min_delta
          /\ LongLcbOk
    /\ (AtVerdict /\ Accepted(cand)) =>
          /\ cand.holdout_hardfails = {}
          /\ cand.holdout_obj >= best_holdout_obj + holdout_delta_req
          /\ HoldoutLcbOk

\* C25 amended: past the inner race the inner evaluations have no hard
\* fail, the inner delta is at least min_delta, the inner paired bound
\* clears its minimum and racing did not reject early; past the medium
\* check the medium tuning evaluations have no hard fail, the medium
\* holdout evaluations at most holdout_hardfail_max hard-fail ids and the
\* medium holdout objective is not below the incumbent's plus the holdout
\* tolerance; past the long stage the long evaluations have no hard fail,
\* the long delta is at least min_delta and the long paired bound clears
\* its minimum; an accepted candidate's holdout evaluations have at most
\* holdout_hardfail_max hard-fail ids, its holdout objective is not below
\* the incumbent's plus the tolerance and its paired bound clears its
\* minimum.
C25_AdvanceOnlyThroughStageGates ==
    /\ PastInner =>
          /\ cand.tune_hardfails = {}
          /\ cand.inner_delta >= min_delta
          /\ cand.inner_lcb_ok
          /\ ~cand.early_reject
    /\ PastMedium =>
          /\ cand.medium_hardfails = {}
          /\ Cardinality(cand.medium_holdout_hardfails) <= holdout_hardfail_max
          /\ cand.medium_holdout_obj >= best_medium_holdout_obj + holdout_delta_req
    /\ PastLong =>
          /\ cand.long_hardfails = {}
          /\ cand.objective_delta >= min_delta
          /\ LongLcbOk
    /\ (AtVerdict /\ Accepted(cand)) =>
          /\ Cardinality(cand.holdout_hardfails) <= holdout_hardfail_max
          /\ cand.holdout_obj >= best_holdout_obj + holdout_delta_req
          /\ HoldoutLcbOk

C25_Witness ==
    /\ PastLong
    /\ PastMedium
    /\ cand.medium_holdout_hardfails # {}
    /\ cand.long_hardfails = {}

\* the cadence asks for the medium check in the iteration in progress
CadenceDue ==
    \/ (medium_check_every_iterations > 0 /\ it % medium_check_every_iterations = 0)
    \/ (medium_check_every_accepted > 0
        /\ (accepted_iters + 1) % medium_check_every_accepted = 0)

\* C26: the medium-horizon check runs in an iteration only if the cadence
\* requires it and the candidate has passed canary and parity on the inner
\* horizon in that iteration; when it does not run it counts as passed.
C26_MediumOnlyOnCadenceAfterChecks ==
    /\ ((pc = "medium" \/ cand.medium_ran) =>
          /\ CadenceDue
          /\ cand.checks_executed
          /\ cand.canary_detail # <<>> /\ cand.canary_pass
          /\ cand.parity_detail # <<>> /\ cand.parity_pass)
    /\ ((pc \in {"long", "holdout", "decide"} /\ ~cand.medium_ran) => cand.medium_pass)
    /\ ((pc \in {"long", "holdout"} /\ ~cand.medium_ran) => ~CadenceDue)

C26_Witness ==
    /\ AtVerdict
    /\ cand.medium_ran
    /\ cand.medium_pass
    /\ cand.holdout_ran
    /\ CadenceDue

\* the hard fails of the evaluations, counted seed by seed
HardFailCount(evals) ==
    SumSeq([i \in DOMAIN evals |-> Cardinality(Hardfails(evals[i]))])

\* C27 as stated: the holdout stage passes only if the holdout objective is
\* at least the best holdout objective plus the tolerance, the number of
\* hard fails over the holdout seeds is at most holdout_hardfail_max and
\* the paired lower bound over the holdout seeds reaches its minimum.
C27_HoldoutPassCapsHardFails ==
    (calc.op = "holdout" /\ calc.holdout_ok) =>
        /\ calc.holdout_obj >= calc.best_holdout_obj + holdout_delta_req
        /\ HardFailCount(calc.cand_hold) <= holdout_hardfail_max
        /\ (paired_enabled => calc.lcb_ok)

\* C27 amended: the holdout stage passes exactly when the holdout objective
\* is at least the best holdout objective plus the tolerance, the number
\* of distinct hard-fail ids over the holdout seeds is at most
\* holdout_hardfail_max (an id carried by several seeds counts once) and
\* the paired lower bound over the holdout seeds reaches its minimum.
C27_HoldoutPassCapsHardFailIds ==
    calc.op = "holdout" =>
        (calc.holdout_ok <=>
            /\ calc.holdout_obj >= calc.best_holdout_obj + holdout_delta_req
            /\ Cardinality({v.id : v \in {w \in Range(AllViolations(calc.cand_hold)) :
                                              w.hardfail}}) <= holdout_hardfail_max
            /\ (paired_enabled => calc.lcb_ok))

C27_Witness ==
    /\ calc.op = "holdout"
    /\ calc.holdout_ok
    /\ HardFailCount(calc.cand_hold) > holdout_hardfail_max
    /\ calc.holdout_obj > calc.best_holdout_obj

\* C28: within an iteration the simulator runs follow the gate order.  The
\* canary and parity runs start only after the inner race ended without
\* early reject, with no inner hard fail and the inner improvement gate
\* cleared; the long-horizon tuning runs only after canary and parity
\* passed and the medium check, if it ran, passed; the long-horizon holdout
\* runs only after the long tuning stage had no hard fail and cleared its
\* improvement gate.
C28_RunsFollowGateOrder ==
    /\ ((pc \in {"canary", "parity"} \/ cand.canary_detail # <<>> \/ cand.parity_detail # <<>>) =>
          /\ ~cand.early_reject
          /\ cand.stage = Len(stage_counts)
          /\ cand.tune_hardfails = {}
          /\ cand.improve_ok
          /\ cand.inner_delta >= min_delta /\ cand.inner_lcb_ok)
    /\ ((pc = "long" \/ cand.long_ran) =>
          /\ cand.canary_detail # <<>> /\ cand.canary_pass
          /\ cand.parity_detail # <<>> /\ cand.parity_pass
          /\ (cand.medium_ran => cand.medium_pass)
          /\ (cand.medium_required => cand.medium_ran))
    /\ ((pc = "holdout" \/ cand.holdout_ran) =>
          /\ cand.long_ran
          /\ cand.long_hardfails = {}
          /\ cand.objective_delta >= min_delta
          /\ LongLcbOk)

C28_Witness ==
    /\ AtVerdict
    /\ cand.medium_ran
    /\ cand.long_ran
    /\ cand.holdout_ran
    /\ ~cand.holdout_ok

\* C29: five consecutive iterations that each fail a gate (canary, parity,
\* medium, long or holdout) end the loop with stop reason SAFETY; in each
\* such iteration the candidate is rejected and the iteration record says
\* so.
C29_FiveGateFailuresStopSafety ==
    /\ (stage_fail_run >= SafetyFailLimit =>
          (pc \in {"final", "done"} /\ stop_reason = "SAFETY"))
    /\ ((stage_fail_run > 0 /\ pc \in {"loop", "final", "done"}) =>
          (iteration_json.exists /\ ~iteration_json.accepted))

\* the iteration being decided repeats the previous signature with a
\* sub-threshold inner delta
PlateauIteration ==
    /\ cand.cand_inner_top3 = prev_top3_inner
    /\ cand.inner_delta < min_delta

\* the counter counts plateau iterations in a row and is zero after any other
PlateauCounted ==
    (pc = "decide" /\ pc' # "decide") =>
        /\ (PlateauIteration => plateau_same_top3' = plateau_same_top3 + 1)
        /\ (~PlateauIteration => plateau_same_top3' = 0)
        /\ prev_top3_inner' = cand.cand_inner_top3

\* the mechanism-gap ticket exists exactly when the run ended with the
\* structural stop reason
TicketIffStructural ==
    /\ (pc # "done" => "mechanism_gap_ticket.json" \notin tickets)
    /\ (pc = "done" => ("mechanism_gap_ticket.json" \in tickets
                          <=> final_report.stop_condition = "STRUCTURAL_CHANGE_SIGNAL"))
    /\ (stop_reason = "STRUCTURAL_CHANGE_SIGNAL"
          => plateau_same_top3 >= plateau_iterations_structural)

\* C30 as stated: the plateau counter counts consecutive iterations whose
\* candidate signature equals the previous one and whose inner delta is
\* below min_delta, and is zero after any other iteration; when the counter
\* reaches P the loop stops with STRUCTURAL_CHANGE_SIGNAL; the mechanism-gap
\* ticket is written exactly when that is the stop reason.
C30_PlateauStopsStructural ==
    [][ /\ PlateauCounted
        /\ TicketIffStructural
        /\ ((pc = "decide" /\ pc' # "decide"
              /\ plateau_same_top3' >= plateau_iterations_structural)
              => stop_reason' = "STRUCTURAL_CHANGE_SIGNAL") ]_vars

\* C30 amended: the counter and the ticket as stated; when the counter
\* reaches P the loop stops, with STRUCTURAL_CHANGE_SIGNAL unless the stop
\* flag, the convergence check or the realism target, which are tested
\* first, give the reason.
C30_PlateauEndsLoop ==
    [][ /\ PlateauCounted
        /\ TicketIffStructural
        /\ ((pc = "decide" /\ pc' # "decide"
              /\ plateau_same_top3' >= plateau_iterations_structural)
              => /\ pc' = "final"
                 /\ stop_reason' \in {"MANUAL_STOP", "CONVERGENCE", "TARGET_REALISM",
                                       "STRUCTURAL_CHANGE_SIGNAL"}
                 /\ (stop_reason' = "STRUCTURAL_CHANGE_SIGNAL" <=>
                        /\ ~stop_flag_exists
                        /\ ~(/\ accepted_iters' >= convergence_iterations
                              /\ accepted_since_improve' >= convergence_iterations
                              /\ best_top3' = cand.cand_top3)
                        /\ ~(best_obj' >= target_objective /\ ~MajorLeft(cand)))) ]_vars

\* a run that ended on the structural signal with its ticket written
C30_Witness ==
    /\ pc = "done"
    /\ final_report.stop_condition = "STRUCTURAL_CHANGE_SIGNAL"
    /\ plateau_same_top3 = plateau_iterations_structural
    /\ tickets = {"mechanism_gap_ticket.json"}

\* the step that decides an iteration
DecideStep == pc = "decide" /\ pc' # "decide"

\* C31 as stated: the loop stops with CONVERGENCE only when the accepted
\* iterations and the iterations since the last acceptance both exceed the
\* patience and the best configuration's violation signature is unchanged.
C31_ConvergenceOnlyPastPatience ==
    [][ (DecideStep /\ stop_reason' = "CONVERGENCE") =>
            /\ accepted_iters' > convergence_iterations
            /\ accepted_since_improve' > convergence_iterations
            /\ best_top3' = best_top3 ]_vars

\* C31 amended: the loop stops with CONVERGENCE only when the accepted
\* iterations and the iterations since the last acceptance have both
\* reached the patience, the iteration's candidate shows the signature of
\* the best configuration, and that signature is unchanged by the iteration.
C31_ConvergenceOnlyAtPatience ==
    [][ (DecideStep /\ stop_reason' = "CONVERGENCE") =>
            /\ accepted_iters' >= convergence_iterations
            /\ accepted_since_improve' >= convergence_iterations
            /\ cand.cand_top3 = best_top3
            /\ best_top3' = best_top3 ]_vars

\* a run stopped by convergence with both counters exactly at the patience
C31_Witness ==
    /\ pc = "done"
    /\ final_report.stop_condition = "CONVERGENCE"
    /\ accepted_iters = convergence_iterations
    /\ accepted_since_improve = convergence_iterations

\* the paired lower confidence bound of the racing stage computed is below t
RaceLcbBelow(t) ==
    ~PairedLcbAtLeast(calc.cand_by_seed, calc.inc_by_seed,
                      Prefix(LabTuningSeeds, calc.stage_n), t)

\* C32 as stated, with racing and pairing enabled: before the final stage
\* the candidate is rejected early exactly when the raw delta over the
\* stage's seeds is below min_delta - early_reject_margin, or at least two
\* paired seeds exist and the paired lower confidence bound is below
\* min_delta - early_reject_margin; no early reject at the final stage.
C32_EarlyRejectBelowMinDeltaMargin ==
    (calc.op = "race" /\ calc.racing /\ calc.paired_on) =>
        IF calc.stage < Len(LabStageCounts)
        THEN calc.early_reject <=>
                \/ calc.stage_delta < min_delta - early_reject_margin
                \/ (calc.paired_n >= 2 /\ RaceLcbBelow(min_delta - early_reject_margin))
        ELSE ~calc.early_reject

\* C32 amended: with racing enabled, before the final stage the candidate
\* is rejected early exactly when the raw delta is below
\* min_delta - early_reject_margin, or pairing is enabled, at least two
\* paired seeds exist and the paired lower confidence bound is below
\* paired_min_inner_lcb_delta - early_reject_margin; no early reject at the
\* final stage or with racing disabled.
C32_EarlyRejectBelowOwnMargins ==
    calc.op = "race" =>
        IF calc.racing /\ calc.stage < Len(LabStageCounts)
        THEN calc.early_reject <=>
                \/ calc.stage_delta < min_delta - early_reject_margin
                \/ /\ calc.paired_on
                   /\ calc.paired_n >= 2
                   /\ RaceLcbBelow(paired_min_inner_lcb_delta - early_reject_margin)
        ELSE ~calc.early_reject

\* a stage rejected on the paired bound alone
C32_Witness ==
    /\ calc.op = "race"
    /\ calc.early_reject
    /\ calc.stage_delta >= min_delta - early_reject_margin
    /\ calc.paired_n >= 2

\* the number of times x occurs in the sequence s
Occurrences(s, x) == Cardinality({i \in DOMAIN s : s[i] = x})

\* every racing stage so far compared candidate and incumbent over the
\* stage's whole seed subset
StagesCompareSameSeeds ==
    \A i \in DOMAIN cand.stage_sets :
        /\ cand.stage_sets[i].cand_seeds = Prefix(tuning_seeds, cand.stage_sets[i].stage_n)
        /\ cand.stage_sets[i].inc_seeds = cand.stage_sets[i].cand_seeds

\* C33 as stated: within one iteration each tuning seed is executed at most
\* once for the selected candidate on the inner horizon, and at every
\* racing stage candidate and incumbent are aggregated over the same seeds.
C33_EachSeedExecutedOnce ==
    /\ \A s \in Range(tuning_seeds) :
          Occurrences(cand.inner_ran, s)
            + (IF s = tuning_seeds[1] THEN cand.canary_execs ELSE 0) <= 1
    /\ StagesCompareSameSeeds

\* C33 amended: the scout and the racing stages of one iteration together
\* execute each tuning seed at most once for the selected candidate, and
\* at every racing stage candidate and incumbent are aggregated over the
\* same seeds; the canary may execute the first tuning seed again.
C33_EachSeedRacedOnce ==
    /\ \A s \in Range(tuning_seeds) : Occurrences(cand.inner_ran, s) <= 1
    /\ StagesCompareSameSeeds

\* the racing loop is through: the scout executed the first seed, a later
\* stage the second, and both stages made their comparison
C33_Witness ==
    /\ pc \in {"canary", "decide"}
    /\ cand.inner_ran = tuning_seeds
    /\ Len(cand.stage_sets) = Len(stage_counts)

\* the directory holds all required artifacts with matching metadata
DirUsable(d) == d.complete /\ d.meta_ok

\* C34, with reuse_existing_seed_dirs at its default: the working directory
\* is reused if it holds all required artifacts with matching metadata;
\* otherwise the cache entry is reused if caching is on and it holds them;
\* only otherwise is the simulator executed, and the cache entry is written
\* only after an execution that exited 0.
C34_ReuseOrderAndCacheWrite ==
    (calc.op = "run_one_dirs" /\ calc.reuse_existing) =>
        LET r == calc.result
            hit == calc.cache_enabled /\ DirUsable(calc.cache_sd)
        IN  /\ (DirUsable(calc.sd) => r.source = "sd")
            /\ ((~DirUsable(calc.sd) /\ hit) => r.source = "cache_sd")
            /\ (r.executed <=> (~DirUsable(calc.sd) /\ ~hit))
            /\ ((r.cache_copied \/ r.cache_written_by_eval)
                  => (r.executed /\ calc.rc = 0))

\* the metadata file is an object whose five fields hold the requested values
MetaIsTheRequest ==
    /\ calc.file = "object"
    /\ \A k \in DOMAIN calc.fields : calc.fields[k] = "match"

\* C35: for any other content of the metadata file (absent, unparsable,
\* keys missing, fields of a wrong type or value) the reuse check reports
\* no match and does not end in an error.
C35_BadMetadataIsSilentMiss ==
    (calc.op = "run_meta_matches" /\ ~MetaIsTheRequest) => calc.result = "False"

C37_BoundedInFlightOrderedResult ==
    pool # NoPool =>
        /\ Cardinality(pool.running) <= Min2(pool.jobs, Len(pool.seeds))
        /\ (pool.phase = "returned" =>
              /\ pool.running = {}
              /\ DOMAIN pool.results = 1..Len(pool.seeds)
              /\ Len(pool.out) = Len(pool.seeds)
              /\ \A k \in 1..Len(pool.seeds) : pool.out[k].seed = pool.seeds[k])

\* a call returned whose workers finished in another order than the seeds
C37_Witness ==
    /\ pool # NoPool
    /\ pool.phase = "returned"
    /\ pool.n_jobs > 1
    /\ Len(pool.seeds) > pool.n_jobs
    /\ \E k, l \in 1..Len(pool.seeds) : k < l /\ pool.out[k].stamp > pool.out[l].stamp

\* no two workers in flight may write the same path
WorkersWriteApart ==
    \A i, j \in pool.running : i # j => WorkerPaths(i) \cap WorkerPaths(j) = {}

\* the seed list of the call names no seed twice
SeedsDistinct ==
    \A k, l \in 1..Len(pool.seeds) : pool.seeds[k] = pool.seeds[l] => k = l

\* C38 as stated: while the workers of a call execute concurrently no two
\* of them write the same working-directory or cache-directory path, for
\* every seed list.
C38_WorkersNeverSharePath ==
    pool # NoPool => WorkersWriteApart

\* C38 amended: the same, for every seed list that names no seed twice.
C38_WorkersOfDistinctSeedsNeverSharePath ==
    (pool # NoPool /\ SeedsDistinct) => WorkersWriteApart

\* workers in flight side by side, each for a seed of its own
C38_Witness ==
    /\ pool # NoPool
    /\ SeedsDistinct
    /\ Cardinality(pool.running) >= 2

\* C39: a malformed (non-numeric) value in a metric column is read as zero,
\* and the evaluation of a run holding such a value does not raise.
C39_MalformedValueReadAsZero ==
    calc.op = "read_timeseries" =>
        /\ \A i \in DOMAIN calc.cells :
              calc.cells[i].kind \in {"word", "empty"} => calc.values[i] = [float |-> 0]
        /\ ~calc.raised

\* C40: at every iteration boundary the incumbent maps hold an entry for
\* every tuning seed (inner, long) and every holdout seed (holdout), and the
\* paired comparisons of the final racing stage, the long stage and the
\* holdout stage pair the full seed list.
C40_IncumbentMapsComplete ==
    /\ (pc \in {"loop", "scout", "race", "canary", "parity", "medium", "long", "holdout",
                "decide", "final", "done"} =>
          /\ DOMAIN best_inner_by_seed = Range(tuning_seeds)
          /\ DOMAIN best_long_by_seed = Range(tuning_seeds)
          /\ DOMAIN best_holdout_by_seed = Range(holdout_seeds))
    /\ (Len(cand.stage_sets) = Len(stage_counts) =>
          PairedN(cand.cand_inner_by_seed, best_inner_by_seed, tuning_seeds)
             = Len(tuning_seeds))
    /\ (cand.long_ran =>
          PairedN(eval_map_by_seed(cand.cand_long), best_long_by_seed, tuning_seeds)
             = Len(tuning_seeds))
    /\ (cand.holdout_ran =>
          PairedN(eval_map_by_seed(cand.cand_hold), best_holdout_by_seed, holdout_seeds)
             = Len(holdout_seeds))

\* a boundary after an accepted iteration: the maps were replaced by the
\* candidate's evaluations
C40_Witness ==
    /\ pc = "loop"
    /\ accepted_iters >= 1
    /\ it >= 2
    /\ measured_on["inner_evals"] = best_cfg
    /\ DOMAIN best_inner_by_seed = Range(tuning_seeds)
    /\ DOMAIN best_holdout_by_seed = Range(holdout_seeds)

====
